---- MODULE Spec2Model ----
(***************************************************************************)
(* A model of the real-time strategy game core: unit production in         *)
(* buildings (buildings/buildings.py), the tile map and its pathfinder     *)
(* (map.py), and missions and campaigns (missions/missions.py).            *)
(*                                                                         *)
(* Python objects are modelled by their identifiers (positive integers,    *)
(* or names), Python's None by -1, and an exception that escapes an        *)
(* operation by the name of its type in the variable raised.               *)
(***************************************************************************)
EXTENDS Integers, Sequences, FiniteSets, TLC

VARIABLES
    \* ---- map.py: Map and MapNode --------------------------------------
    columns,                \* Map.columns
    rows,                   \* Map.rows
    unit_id,                \* MapNode._unit_id, by grid position
    building_id,            \* MapNode._building_id, by grid position
    map_units,              \* Map.units: grid position -> unit id
    map_buildings,          \* Map.buildings: grid position -> building id
    map_width,              \* Map.width
    map_height,             \* Map.height
    sectors,                \* Map.sectors: sector id -> the Sector's members
    \* ---- buildings.py: Building ---------------------------------------
    buildings,              \* the Buildings constructed and not torn down
    constructed,            \* every Building id handed out so far
    geometry,               \* Building sprite: centre and texture size
    occupied_nodes,         \* Building.occupied_nodes
    occupied_sectors,       \* Building.occupied_sectors
    \* ---- buildings.py: IProducer --------------------------------------
    produced_objects,       \* IProducer.produced_objects (class attribute)
    production_queue,       \* IProducer.production_queue (class attribute)
    production_progress,    \* production_progress of each Building
    production_per_frame,   \* production_per_frame of each Building
    is_producing,           \* is_producing of each Building
    run,                    \* history: updates since the last start_production
    requested,              \* history: the order the queue entries were added in
    \* ---- map.py: Pathfinder.find_path ---------------------------------
    pc,                     \* position inside find_path
    start,                  \* argument start
    end,                    \* argument end
    unexplored,             \* PriorityQueue.elements: (priority, item) pairs
    contains,               \* PriorityQueue._contains
    previous,               \* previous: grid -> grid
    cost_so_far,            \* cost_so_far: key -> cost
    path,                   \* the value find_path returned
    puts,                   \* history: how often each grid was put
    \* ---- missions.py: Mission, Campaign; game.py: Game ----------------
    mission,                \* is there a current Mission object
    index,                  \* Mission.index
    campaign,               \* Mission.campaign is not None
    players,                \* Mission.players
    victory_points,         \* Mission.victory_points
    required_victory_points,\* Mission.required_victory_points
    ended,                  \* Mission.ended
    winner,                 \* Mission.winner
    winner_object,          \* which Player object of that id it is
    conditions,             \* Mission.conditions
    missions,               \* Campaign.missions: index -> unlocked flag
    game_players,           \* Game.players (the ids registered)
    local_human_player,     \* Game.local_human_player
    local_object,           \* which Player object of that id it is
    player_object,          \* Game.players: which object is under each id
    unloaded,               \* Game.unload has run on this Game
    executed,               \* history: conditions whose consequences ran
    \* ---- game.py: Window; save_handling.py: SaveManager ----------------
    viewport,               \* the current view's viewport
    viewports,              \* the viewport of each view, by view
    saved_games,            \* SaveManager.saved_games: name -> path
    files,                  \* the paths that are files on the disk
    shelves,                \* the files that hold a GNU dbm database
    game_view,              \* Window.game_view: a Game view, or None
    map_loaded,             \* Game.map of the game view is not None
    things_to_load,         \* Game.things_to_load of the game view: names
    current_view,           \* Window.current_view
    views,                  \* how many Game views were constructed so far
    views_unloaded,         \* the Game views whose unload() has completed
    cursor_active,          \* Window.cursor.active
    keyboard_active,        \* Window.keyboard.active
    forwarded,              \* history: the callback and the handler it reached
    \* ---- map.py: Map.group_of_waypoints ------------------------------
    wp_pc,                  \* position inside group_of_waypoints
    required_waypoints,     \* argument required_waypoints
    first_waypoint,         \* first_waypoint
    waypoints,              \* waypoints
    all_adjacent,           \* all_adjacent
    wp_node,                \* node (its grid position)
    wp_result,              \* the list group_of_waypoints returned
    \* ---- utils/functions.py: functions of their arguments -------------
    argument,               \* the argument of the function called last
    result,                 \* the value it returned
    \* ---- history ------------------------------------------------------
    call,                   \* the operation called last, with its arguments
    before,                 \* what that operation found when it was called
    raised                  \* the exception that escaped it, or "none"

mapVars == <<columns, rows, unit_id, building_id, map_units, map_buildings,
             map_width, map_height, sectors>>
buildingVars == <<buildings, constructed, geometry, occupied_nodes,
                  occupied_sectors>>
producerVars == <<produced_objects, production_queue, production_progress,
                  production_per_frame, is_producing, run, requested>>
pathVars == <<pc, start, end, unexplored, contains, previous, cost_so_far,
              path, puts>>
missionVars == <<mission, index, campaign, players, victory_points,
                 required_victory_points, ended, winner, winner_object,
                 conditions>>
campaignVars == <<missions>>
gameVars == <<game_players, local_human_player, local_object, player_object,
              unloaded>>
windowVars == <<viewport, viewports, saved_games, files, shelves>>
functionVars == <<argument, result>>
appVars == <<game_view, map_loaded, things_to_load, current_view, views,
             views_unloaded, cursor_active, keyboard_active, forwarded>>
waypointVars == <<wp_pc, required_waypoints, first_waypoint, waypoints,
                  all_adjacent, wp_node, wp_result>>
restVars == <<executed, windowVars, functionVars, appVars, waypointVars>>
vars == <<mapVars, buildingVars, producerVars, pathVars, missionVars,
          campaignVars, gameVars, restVars, call, before, raised>>

None == -1

(***************************************************************************)
(* Bounds of the model.                                                    *)
(***************************************************************************)
MaxBuildings == 2       \* Building objects ever constructed
MaxProducers == 1       \* of them, Buildings whose production is driven
MaxQueue == 3           \* entries in the production queue
MapSide == 4            \* side of the square map Buildings are placed on
MaxSide == 3            \* side of the square map of the path searches
MaxCorner == 10         \* side of the largest map searched corner to corner
MaxPlayers == 4         \* player ids
MaxPoints == 4          \* a player's victory points
MaxMissions == 5        \* missions of a campaign
MaxConditions == 1      \* conditions of a mission
MaxTickConditions == 3  \* conditions of a mission evaluated by update
MaxViewColumns == 4     \* columns of the largest world scrolled over
MaxViewRows == 3        \* rows of the largest world scrolled over
MaxGridSide == 2        \* side in tiles of the largest world converted
MaxExponent == 32       \* the greatest player id is 2 ^ MaxExponent
MaxViews == 3           \* Game views ever constructed

(***************************************************************************)
(* Program constants.                                                      *)
(***************************************************************************)
TILE_WIDTH == 60
TILE_HEIGHT == 60
SECTOR_SIZE == 8
BUILDING_TILE_WIDTH == 60
BUILDING_TILE_HEIGHT == 40
PRODUCTION_DONE == 100
HUMAN_PLAYER_ID == 2
SCREEN_WIDTH == 120
SCREEN_HEIGHT == 60
SCREEN_X == SCREEN_WIDTH \div 2
SCREEN_Y == SCREEN_HEIGHT \div 2
SAVE_EXTENSION == ".sav"
LimbBits == 17

(***************************************************************************)
(* map.py: GridHandler, Map, MapNode.                                      *)
(***************************************************************************)
position_to_grid(x, y) == <<x \div TILE_WIDTH, y \div TILE_HEIGHT>>

\* grid_to_position without the half tile added
grid_to_position_Corner(grid) ==
    <<grid[1] * TILE_WIDTH, grid[2] * TILE_HEIGHT>>

grid_to_position(grid) ==
    <<grid[1] * TILE_WIDTH + TILE_WIDTH \div 2,
      grid[2] * TILE_HEIGHT + TILE_HEIGHT \div 2>>

normalize_position(x, y) == grid_to_position(position_to_grid(x, y))

adjacent_offsets ==
    << <<-1, -1>>, <<-1, 0>>, <<-1, 1>>, <<0, 1>>, <<0, -1>>, <<1, -1>>,
       <<1, 0>>, <<1, 1>> >>

\* adjacent_grids without the three grids of the next column
adjacent_grids_NoEast(x, y) ==
    LET grid == position_to_grid(x, y)
        offsets == SelectSeq(adjacent_offsets, LAMBDA o : o[1] < 1)
    IN  [i \in 1..Len(offsets) |->
            <<grid[1] + offsets[i][1], grid[2] + offsets[i][2]>>]

adjacent_grids(x, y) ==
    LET grid == position_to_grid(x, y)
    IN  [i \in 1..Len(adjacent_offsets) |->
            <<grid[1] + adjacent_offsets[i][1],
              grid[2] + adjacent_offsets[i][2]>>]

InMap(p) == 0 <= p[1] /\ p[1] < columns /\ 0 <= p[2] /\ p[2] < rows

in_bounds(grids) == SelectSeq(grids, InMap)

\* Map.nodes: one MapNode for every grid position, named by that position.
nodes == (0..(columns - 1)) \X (0..(rows - 1))

adjacent_nodes(x, y) == in_bounds(adjacent_grids(x, y))

\* A walkable that looks at the unit occupant only.
walkable_UnitsOnly(node) == unit_id[node] = None

\* MapNode.walkable
walkable(node) == unit_id[node] = None /\ building_id[node] = None

walkable_adjacent(x, y) == SelectSeq(adjacent_nodes(x, y), walkable)

\* MapNode.walkable_adjacent and MapNode.adjacent_nodes (properties)
node_walkable_adjacent(node) ==
    LET position == grid_to_position(node)
    IN  walkable_adjacent(position[1], position[2])

node_adjacent_nodes(node) ==
    LET position == grid_to_position(node)
    IN  adjacent_nodes(position[1], position[2])

is_diagonal_to_other(node, other) == node[1] # other[1] /\ node[2] # other[2]

\* MapNode.costs, in tenths: what calculate_distances_between_nodes stored
\* for the in-bounds neighbour grid of node.
costs(node, grid) == IF is_diagonal_to_other(node, grid) THEN 10 ELSE 14

\* A Python dict after d[k] = v.
DictPut(d, k, v) == [x \in (DOMAIN d) \cup {k} |-> IF x = k THEN v ELSE d[x]]

\* A Python dict after d[k] = v for every k of ks.
DictPutAll(d, ks, v) ==
    [x \in (DOMAIN d) \cup ks |-> IF x \in ks THEN v ELSE d[x]]

EmptyDict == [x \in {} |-> None]

\* A getter that reads the building occupant of the node
get_building_id_Own(node) == building_id[node]

\* MapNode.building_id (getter)
get_building_id(node) == unit_id[node]

\* MapNode.unit_id (getter)
get_unit_id(node) == unit_id[node]

\* The Map of map.py keeps no Sectors: it has no attribute sectors and its
\* MapNodes have no attribute sector.
NoSectors == <<>>

\* Map.generate_nodes: c columns and r rows of nodes with no occupant.
generate_nodes(c, r) ==
    /\ columns = c
    /\ rows = r
    /\ unit_id = [n \in (0..(c - 1)) \X (0..(r - 1)) |-> None]
    /\ building_id = [n \in (0..(c - 1)) \X (0..(r - 1)) |-> None]
    /\ map_units = EmptyDict
    /\ map_buildings = EmptyDict
    /\ map_width = c * TILE_WIDTH
    /\ map_height = r * TILE_HEIGHT

\* Map.__init__ of map.py: a map of c columns and r rows.
MapInit(c, r) == generate_nodes(c, r) /\ sectors = NoSectors

\* MapNode.sector of a Map that keeps Sectors: the Sector of SECTOR_SIZE
\* columns and rows the node lies in, named by its id.
sector_of(node) == <<node[1] \div SECTOR_SIZE, node[2] \div SECTOR_SIZE>>

\* MapNode.unit_id (setter)
set_unit_id(node, value) ==
    /\ map_units' = DictPut(map_units, node, value)
    /\ unit_id' = [unit_id EXCEPT ![node] = value]

\* MapNode.building_id (setter), applied to every node of a set
set_building_id(nodeSet, value) ==
    /\ map_buildings' = DictPutAll(map_buildings, nodeSet, value)
    /\ building_id' = [n \in DOMAIN building_id |->
                          IF n \in nodeSet THEN value ELSE building_id[n]]

(***************************************************************************)
(* The history variable call: the operation called last, the object it was *)
(* called on, and its arguments (-1, "" or <<-1, -1>> where it has none).  *)
(***************************************************************************)
Call(op, self, product, n, grid) ==
    [op |-> op, self |-> self, product |-> product, n |-> n, grid |-> grid]

NoGrid == <<-1, -1>>

NoCall == Call("", -1, "", -1, NoGrid)

\* The history variable run: the producer self on which start_production
\* put the allowed product, the length q0 of the queue right after it, and
\* the number n of update_production calls on self that followed directly.
Run(self, product, q0, n) ==
    [self |-> self, product |-> product, q0 |-> q0, n |-> n]

NoRun == Run(-1, "", 0, -1)

\* The history variable before, for a call on the producer self: the
\* producer's state when the call was made.
ProducerBefore(progress, per_frame, producing, queue) ==
    [progress |-> progress, per_frame |-> per_frame,
     producing |-> producing, queue |-> queue]

NoProducerBefore == ProducerBefore(0, 0, FALSE, <<>>)

\* The history variable requested runs parallel to production_queue: entry i
\* is the rank of production_queue[i] in the order of the appendleft calls,
\* a greater rank for a later call.  ranks is the set of the ranks in use.
ranks(req) == {req[i] : i \in 1..Len(req)}

\* The ranks of req renumbered from 1 in the same order.
compact(req) ==
    [i \in 1..Len(req) |-> Cardinality({r \in ranks(req) : r <= req[i]})]

\* deque.appendleft, on the ranks: the new entry is the latest one.
appendleft_rank(req) == <<Len(req) + 1>> \o compact(req)

\* deque.pop, on the ranks: the entry at the right end goes.
pop_rank(req) == SubSeq(req, 1, Len(req) - 1)

(***************************************************************************)
(* buildings.py: Building.                                                 *)
(***************************************************************************)
BuildingIds == 1..MaxBuildings

\* The value None of the argument produces.
NoProduces == <<"None">>

Max(a, b) == IF a >= b THEN a ELSE b

\* Building.place_building_properly_on_the_grid: the centre of a Building
\* of texture size width x height asked for at position (x, y).
place_building_properly_on_the_grid(x, y, width, height) ==
    LET position == normalize_position(x, y)
        offset_x == IF (width \div BUILDING_TILE_WIDTH) % 3 = 0
                    THEN 0 ELSE BUILDING_TILE_WIDTH \div 2
        offset_y == IF (height \div BUILDING_TILE_WIDTH) % 3 = 0
                    THEN 0 ELSE BUILDING_TILE_HEIGHT \div 2
    IN  <<position[1] + offset_x, position[2] + offset_y>>

\* The grid positions block_map_nodes visits, in its order, for a sprite
\* with centre (cx, cy): left = cx - width / 2, right = cx + width / 2,
\* bottom = cy - height / 2, top = cy + height / 2 (doubled to stay whole).
footprint_grids(cx, cy, width, height) ==
    LET min_x_grid == (2 * cx - width) \div (2 * BUILDING_TILE_WIDTH)
        min_y_grid == (2 * cy - height) \div (2 * BUILDING_TILE_HEIGHT)
        max_x_grid == (2 * cx + width) \div (2 * BUILDING_TILE_WIDTH)
        max_y_grid == (2 * cy + height) \div (2 * BUILDING_TILE_HEIGHT)
        nx == Max(0, max_x_grid - min_x_grid)
        ny == Max(0, max_y_grid - min_y_grid)
    IN  [k \in 1..(nx * ny) |->
            <<min_x_grid + ((k - 1) \div ny), min_y_grid + ((k - 1) % ny)>>]

\* How many of the grids block_map_nodes reaches before grid_to_node raises
\* KeyError: all of them when every one is on the map.
reached(grids) ==
    IF \A k \in 1..Len(grids) : InMap(grids[k])
    THEN Len(grids)
    ELSE (CHOOSE k \in 1..Len(grids) :
             /\ ~InMap(grids[k])
             /\ \A j \in 1..(k - 1) : InMap(grids[j])) - 1

\* block_map_nodes that stops one node early
block_map_nodes_LastMissed(self, grids) ==
    set_building_id({grids[k] : k \in 1..(reached(grids) - 1)}, self)

\* Building.block_map_nodes with block_map_node
block_map_nodes(self, grids) ==
    set_building_id({grids[k] : k \in 1..reached(grids)}, self)

\* Building.update_current_sector, for the occupied nodes nodeSet: reading
\* node.sector raises AttributeError on a MapNode of map.py; on a Map with
\* Sectors the Building joins the members of the Sector of every node.
update_current_sector(self, nodeSet) ==
    IF nodeSet # {} /\ sectors = NoSectors
    THEN UNCHANGED <<sectors, occupied_sectors>>
    ELSE LET distinct_sectors == {sector_of(n) : n \in nodeSet}
         IN  /\ sectors' = [s \in DOMAIN sectors |->
                                IF s \in distinct_sectors
                                THEN sectors[s] \cup {self}
                                ELSE sectors[s]]
             /\ occupied_sectors' =
                    [occupied_sectors EXCEPT ![self] = distinct_sectors]

\* Building.__init__: a new Building self of texture size width x height at
\* position (x, y). The producer part comes first, then the placement: a
\* footprint that leaves the map raises KeyError half way through
\* block_map_nodes, and a footprint of at least one node raises
\* AttributeError in update_current_sector when the Map keeps no Sectors.
\* Either way the nodes reached stay blocked and no Building comes to exist.
Building__init__(self, x, y, width, height, produces) ==
    LET centre == place_building_properly_on_the_grid(x, y, width, height)
        grids == footprint_grids(centre[1], centre[2], width, height)
        fits == reached(grids) = Len(grids)
        blocked == {grids[k] : k \in 1..Len(grids)}
        placed == fits /\ (blocked = {} \/ sectors # NoSectors)
    IN  /\ self \notin constructed
        /\ \A other \in BuildingIds : other < self => other \in constructed
        /\ constructed' = constructed \cup {self}
        /\ produced_objects' = IF produces # NoProduces
                               THEN produced_objects \o produces
                               ELSE produced_objects
        /\ block_map_nodes(self, grids)
        /\ occupied_nodes' = [occupied_nodes EXCEPT ![self] =
               IF fits THEN blocked ELSE {}]
        /\ IF fits
           THEN update_current_sector(self, blocked)
           ELSE UNCHANGED <<sectors, occupied_sectors>>
        /\ buildings' = IF placed THEN buildings \cup {self} ELSE buildings
        /\ geometry' = [geometry EXCEPT ![self] =
               [x |-> centre[1], y |-> centre[2],
                width |-> width, height |-> height]]
        /\ raised' = IF ~fits THEN "KeyError"
                      ELSE IF placed THEN "none" ELSE "AttributeError"
        /\ call' = Call("Building", self, "", -1, <<x, y>>)
        /\ before' = NoProducerBefore
        /\ UNCHANGED <<columns, rows, unit_id, map_units, map_width, map_height>>
        /\ UNCHANGED <<production_queue, production_progress,
                       production_per_frame, is_producing, requested>>
        /\ UNCHANGED <<pathVars, missionVars, campaignVars, gameVars,
                       restVars>>
        /\ run' = NoRun

\* Building.unblock_map_node, applied to every node of a set
unblock_map_node(nodeSet) == set_building_id(nodeSet, None)

\* Building.kill: the occupied nodes are unblocked first; then the Building
\* leaves the members of every Sector of occupied_sectors, which are looked
\* up in map.sectors, and the entity is torn down (super().kill()).  On a
\* Map that keeps no Sectors the first lookup raises AttributeError and the
\* teardown is not reached; with no occupied sector nothing is looked up.
kill(self) ==
    LET found == occupied_sectors[self] = {} \/ sectors # NoSectors
    IN  /\ self \in buildings
        /\ unblock_map_node(occupied_nodes[self])
        /\ sectors' = IF found
                      THEN [s \in DOMAIN sectors |->
                               IF s \in occupied_sectors[self]
                               THEN sectors[s] \ {self}
                               ELSE sectors[s]]
                      ELSE sectors
        /\ buildings' = IF found THEN buildings \ {self} ELSE buildings
        /\ raised' = IF found THEN "none" ELSE "AttributeError"
        /\ call' = Call("kill", self, "", -1, NoGrid)
        /\ before' = NoProducerBefore
        /\ UNCHANGED <<columns, rows, unit_id, map_units, map_width, map_height>>
        /\ UNCHANGED <<constructed, geometry, occupied_nodes,
                       occupied_sectors>>
        /\ UNCHANGED <<produced_objects, production_queue,
                       production_progress, production_per_frame,
                       is_producing, requested>>
        /\ UNCHANGED <<pathVars, missionVars, campaignVars, gameVars,
                       restVars>>
        /\ run' = NoRun

(***************************************************************************)
(* buildings.py: IProducer. The list produced_objects and the deque        *)
(* production_queue are attributes of the class, which no instance ever    *)
(* rebinds; the three other attributes become the instance's own when a    *)
(* method first assigns them, and read as the class defaults until then.   *)
(***************************************************************************)
\* The products asked for: objects with a class and a configured
\* production_per_frame.
Products == {"tank", "jeep", "truck"}

class_of(product) ==
    CASE product = "tank" -> "Tank"
      [] product = "jeep" -> "Jeep"
      [] product = "truck" -> "Truck"

rate_of(product) ==
    CASE product = "tank" -> 25
      [] product = "jeep" -> 40
      [] product = "truck" -> 60

\* The tuples of classes a Building is constructed to produce.
ProducesOptions == {NoProduces, <<"Tank">>, <<"Tank", "Jeep">>}

Range(seq) == {seq[k] : k \in 1..Len(seq)}

otherVarsOfProducer ==
    <<mapVars, buildingVars, pathVars, missionVars, campaignVars, gameVars,
      restVars>>

\* IProducer.set_production_progress_and_speed
set_production_progress_and_speed(self, product) ==
    /\ production_progress' = [production_progress EXCEPT ![self] = 0]
    /\ production_per_frame' =
           [production_per_frame EXCEPT ![self] = rate_of(product)]

\* IProducer._start_production
_start_production(self, product) ==
    set_production_progress_and_speed(self, product)

\* start_production with append in place of appendleft
start_production_body_Append(self, product) ==
    IF class_of(product) \notin Range(produced_objects)
    THEN UNCHANGED <<production_queue, production_progress,
                     production_per_frame, requested>>
    ELSE /\ production_queue' = production_queue \o <<product>>
         /\ requested' = compact(requested) \o <<Len(requested) + 1>>
         /\ _start_production(self, product)

\* The body of IProducer.start_production
start_production_body(self, product) ==
    IF class_of(product) \notin Range(produced_objects)
    THEN UNCHANGED <<production_queue, production_progress,
                     production_per_frame, requested>>
    ELSE /\ production_queue' = <<product>> \o production_queue
         /\ requested' = appendleft_rank(requested)
         /\ _start_production(self, product)

\* IProducer.start_production
start_production(self, product) ==
    /\ self \in buildings
    /\ start_production_body(self, product)
    /\ run' = IF class_of(product) \in Range(produced_objects)
              THEN Run(self, product, Len(production_queue) + 1, 0)
              ELSE NoRun
    /\ raised' = "none"
    /\ call' = Call("start_production", self, product, -1, NoGrid)
    /\ before' = ProducerBefore(production_progress[self],
                              production_per_frame[self],
                              is_producing[self], production_queue)
    /\ UNCHANGED <<produced_objects, is_producing, otherVarsOfProducer>>

\* IProducer._toggle_production, as part of another method
toggled(self) == [is_producing EXCEPT ![self] = ~is_producing[self]]

\* IProducer._toggle_production
_toggle_production(self) ==
    /\ self \in buildings
    /\ is_producing' = toggled(self)
    /\ run' = NoRun
    /\ raised' = "none"
    /\ call' = Call("_toggle_production", self, "", -1, NoGrid)
    /\ before' = ProducerBefore(production_progress[self],
                              production_per_frame[self],
                              is_producing[self], production_queue)
    /\ UNCHANGED <<produced_objects, production_queue, production_progress,
                   production_per_frame, requested, otherVarsOfProducer>>

\* cancel_production without the toggle
cancel_production_body_NoToggle(self) ==
    /\ UNCHANGED is_producing
    /\ production_progress' = [production_progress EXCEPT ![self] = 0]
    /\ production_queue' = <<>>
    /\ requested' = <<>>

\* The body of IProducer.cancel_production
cancel_production_body(self) ==
    /\ is_producing' = IF is_producing[self] THEN toggled(self)
                       ELSE is_producing
    /\ production_progress' = [production_progress EXCEPT ![self] = 0]
    /\ production_queue' = <<>>
    /\ requested' = <<>>

\* IProducer.cancel_production
cancel_production(self) ==
    /\ self \in buildings
    /\ cancel_production_body(self)
    /\ run' = NoRun
    /\ raised' = "none"
    /\ call' = Call("cancel_production", self, "", -1, NoGrid)
    /\ before' = ProducerBefore(production_progress[self],
                              production_per_frame[self],
                              is_producing[self], production_queue)
    /\ UNCHANGED <<produced_objects, production_per_frame,
                   otherVarsOfProducer>>

\* finish_production with popleft() for pop()
finish_production_body_PopLeft(self) ==
    /\ is_producing' = toggled(self)
    /\ production_progress' = [production_progress EXCEPT ![self] = 0]
    /\ production_queue' =
           IF production_queue = <<>> THEN production_queue
           ELSE Tail(production_queue)
    /\ requested' =
           IF production_queue = <<>> THEN requested ELSE Tail(requested)
    /\ raised' = IF production_queue = <<>> THEN "IndexError" ELSE "none"

\* The body of IProducer.finish_production: deque.pop() on an empty deque
\* raises IndexError after the two assignments before it.
finish_production_body(self) ==
    /\ is_producing' = toggled(self)
    /\ production_progress' = [production_progress EXCEPT ![self] = 0]
    /\ production_queue' =
           IF production_queue = <<>> THEN production_queue
           ELSE SubSeq(production_queue, 1, Len(production_queue) - 1)
    /\ requested' =
           IF production_queue = <<>> THEN requested
           ELSE pop_rank(requested)
    /\ raised' = IF production_queue = <<>> THEN "IndexError" ELSE "none"

\* IProducer.finish_production
finish_production(self) ==
    /\ self \in buildings
    /\ finish_production_body(self)
    /\ run' = NoRun
    /\ call' = Call("finish_production", self, "", -1, NoGrid)
    /\ before' = ProducerBefore(production_progress[self],
                              production_per_frame[self],
                              is_producing[self], production_queue)
    /\ UNCHANGED <<produced_objects, production_per_frame,
                   otherVarsOfProducer>>

\* The body of IProducer.update_production
update_production_body(self) ==
    IF is_producing[self]
    THEN LET progress ==
                 production_progress[self] + production_per_frame[self]
         IN  IF progress >= PRODUCTION_DONE
             THEN /\ finish_production_body(self)
                  /\ UNCHANGED production_per_frame
             ELSE /\ production_progress' =
                         [production_progress EXCEPT ![self] = progress]
                  /\ raised' = "none"
                  /\ UNCHANGED <<production_queue, production_per_frame,
                                 is_producing, requested>>
    ELSE IF production_queue # <<>>
         THEN /\ start_production_body(
                     self, production_queue[Len(production_queue)])
              /\ raised' = "none"
              /\ UNCHANGED is_producing
         ELSE /\ raised' = "none"
              /\ UNCHANGED <<production_queue, production_progress,
                             production_per_frame, is_producing, requested>>

\* IProducer.update_production
update_production(self) ==
    /\ self \in buildings
    /\ update_production_body(self)
    /\ run' = IF run.self = self /\ run.n >= 0 /\ run.n < 4
              THEN [run EXCEPT !.n = @ + 1]
              ELSE NoRun
    /\ call' = Call("update_production", self, "", -1, NoGrid)
    /\ before' = ProducerBefore(production_progress[self],
                              production_per_frame[self],
                              is_producing[self], production_queue)
    /\ UNCHANGED <<produced_objects, otherVarsOfProducer>>

(***************************************************************************)
(* map.py: PriorityQueue and Pathfinder. A priority total + hypot(dx, dy)  *)
(* is kept as the pair of total (in tenths) and dx * dx + dy * dy, and two *)
(* priorities are compared exactly. Costs are in tenths, as MapNode.costs. *)
(***************************************************************************)
inf == 1000000

\* A key of cost_so_far: find_path uses grid positions (kind 0) and
\* MapNode objects (kind 1) as keys of the same dict.
GridKey(grid) == <<0, grid[1], grid[2]>>

NodeKey(node) == <<1, node[1], node[2]>>

\* Pathfinder.heuristic: hypot(dx, dy), kept as its square
heuristic(a, b) ==
    (a[1] - b[1]) * (a[1] - b[1]) + (a[2] - b[2]) * (a[2] - b[2])

Priority(total, h2) == [t |-> total, d2 |-> h2]

\* 1 + sqrt(a) < sqrt(b) and 1 + sqrt(a) = sqrt(b), for naturals a, b
OnePlusRootLess(a, b) ==
    b - a - 1 > 0 /\ (b - a - 1) * (b - a - 1) > 4 * a

OnePlusRootEqual(a, b) ==
    b - a - 1 >= 0 /\ (b - a - 1) * (b - a - 1) = 4 * a

\* p < q and p = q for priorities p, q whose totals are 0 or 1 (10 tenths)
PriorityLess(p, q) ==
    IF p.t = q.t THEN p.d2 < q.d2
    ELSE IF p.t > q.t THEN OnePlusRootLess(p.d2, q.d2)
    ELSE ~(OnePlusRootLess(q.d2, p.d2) \/ OnePlusRootEqual(q.d2, p.d2))

PriorityEqual(p, q) ==
    IF p.t = q.t THEN p.d2 = q.d2
    ELSE IF p.t > q.t THEN OnePlusRootEqual(p.d2, q.d2)
    ELSE OnePlusRootEqual(q.d2, p.d2)

\* The order of the tuples (priority, item) in the heap
EntryLess(e, f) ==
    \/ PriorityLess(e.priority, f.priority)
    \/ /\ PriorityEqual(e.priority, f.priority)
       /\ \/ e.item[1] < f.item[1]
          \/ e.item[1] = f.item[1] /\ e.item[2] < f.item[2]

\* PriorityQueue.get: the entry heappop returns
get(elements) ==
    CHOOSE e \in elements : \A f \in elements \ {e} : EntryLess(e, f)

\* A defaultdict read d[key]: the value, and the dict with the default
\* entered for a key that was missing.
Read(d, key) == IF key \in DOMAIN d THEN d[key] ELSE inf

Touched(d, key) == IF key \in DOMAIN d THEN d ELSE DictPut(d, key, inf)

\* inf + c = inf
Plus(a, c) == IF a = inf THEN inf ELSE a + c

\* The scratch structures of one find_path call.
Scratch(elements, members, prev, cost, putCount) ==
    [unexplored |-> elements, contains |-> members, previous |-> prev,
     cost_so_far |-> cost, puts |-> putCount]

\* How often item was put so far.
Read0(d, key) == IF key \in DOMAIN d THEN d[key] ELSE 0

\* A put that leaves the membership set alone
put_NoMembership(st, item, priority) ==
    [st EXCEPT !.unexplored = @ \cup {[priority |-> priority, item |-> item]},
               !.puts = DictPut(@, item, Read0(@, item) + 1)]

\* PriorityQueue.put
put(st, item, priority) ==
    [st EXCEPT !.contains = @ \cup {item},
               !.unexplored = @ \cup {[priority |-> priority, item |-> item]},
               !.puts = DictPut(@, item, Read0(@, item) + 1)]

\* Lines 276-281 of find_path for one neighbour adj of current: total is
\* the result of a comparison (True = 1, here 10 tenths), and the reads of
\* the defaultdict enter inf for the keys that were missing.
relax(st, current, adj, goal) ==
    LET cost1 == Touched(st.cost_so_far, GridKey(current))
        cost2 == Touched(cost1, GridKey(adj))
        total == IF Plus(cost2[GridKey(current)], costs(adj, current))
                        < cost2[GridKey(adj)]
                 THEN 10 ELSE 0
        cost3 == Touched(cost2, NodeKey(adj))
    IN  IF total < cost3[NodeKey(adj)]
        THEN put([st EXCEPT
                     !.previous = DictPut(@, adj, current),
                     !.cost_so_far = DictPut(cost3, NodeKey(adj), total)],
                 adj, Priority(total, heuristic(adj, goal)))
        ELSE [st EXCEPT !.cost_so_far = cost3]

\* The for loop of find_path over node.walkable_adjacent, from its i-th
\* element on: a neighbour that is in the queue's membership set when its
\* turn comes is skipped.
RECURSIVE explore(_, _, _, _, _)
explore(scratch, current, adjacent, i, goal) ==
    IF i > Len(adjacent) THEN scratch
    ELSE CHOOSE after \in
             {IF adjacent[i] \in st.contains
              THEN explore(st, current, adjacent, i + 1, goal)
              ELSE explore(relax(st, current, adjacent[i], goal),
                           current, adjacent, i + 1, goal) :
              st \in {scratch}} : TRUE

\* The nodes from the first one without a back-pointer to current_node
\* (reconstruct_path builds the list backwards and reverses it).
RECURSIVE chain(_, _)
chain(previous_nodes, current_node) ==
    IF current_node \in DOMAIN previous_nodes
    THEN Append(chain(previous_nodes, previous_nodes[current_node]),
                current_node)
    ELSE <<current_node>>

\* A nodes_list_to_path that gives the corners of the tiles
nodes_list_to_path_Corners(nodes_list) ==
    [k \in 1..Len(nodes_list) |-> grid_to_position_Corner(nodes_list[k])]

\* Pathfinder.nodes_list_to_path
nodes_list_to_path(nodes_list) ==
    [k \in 1..Len(nodes_list) |-> grid_to_position(nodes_list[k])]

\* A reconstruct_path that leaves out the reversal path[::-1].
reconstruct_path_Unreversed(previous_nodes, current_node) ==
    LET forward == chain(previous_nodes, current_node)
    IN  nodes_list_to_path(
            [k \in 1..Len(forward) |-> forward[Len(forward) + 1 - k]])

\* Pathfinder.reconstruct_path
reconstruct_path(previous_nodes, current_node) ==
    nodes_list_to_path(chain(previous_nodes, current_node))

otherVarsOfPath ==
    <<mapVars, buildingVars, producerVars, missionVars, campaignVars,
      gameVars, restVars, before>>

\* Pathfinder.find_path, lines 256-267: the call and its initialisation
find_path(s, e) ==
    /\ pc = "idle"
    /\ start' = s
    /\ end' = e
    /\ unexplored' = {[priority |-> Priority(0, heuristic(s, e)), item |-> s]}
    /\ contains' = {s}
    /\ previous' = EmptyDict
    /\ cost_so_far' = DictPut(EmptyDict, GridKey(s), 0)
    /\ puts' = DictPut(EmptyDict, s, 1)
    /\ path' = <<>>
    /\ pc' = "loop"
    /\ raised' = "none"
    /\ call' = Call("find_path", -1, "", -1, s)
    /\ UNCHANGED otherVarsOfPath

\* Pathfinder.find_path, lines 269-281: one turn of the while loop, which
\* returns the reconstructed path when it takes the goal from the queue
find_path_loop ==
    /\ pc = "loop"
    /\ unexplored # {}
    /\ \E best \in {get(unexplored)} :
       \E st \in {Scratch(unexplored \ {best}, contains, previous,
                           cost_so_far, puts)} :
           IF best.item = end
           THEN /\ path' = reconstruct_path(previous, best.item)
                /\ pc' = "done"
                /\ unexplored' = st.unexplored
                /\ UNCHANGED <<contains, previous, cost_so_far, puts>>
           ELSE \E adjacent \in {node_walkable_adjacent(best.item)} :
                \E after \in {explore(st, best.item, adjacent, 1, end)} :
                    /\ unexplored' = after.unexplored
                    /\ contains' = after.contains
                    /\ previous' = after.previous
                    /\ cost_so_far' = after.cost_so_far
                    /\ puts' = after.puts
                    /\ UNCHANGED <<path, pc>>
    /\ UNCHANGED <<start, end, raised, call, otherVarsOfPath>>

\* Pathfinder.find_path, lines 282-283: the queue is empty, the search
\* failed and the empty path is returned
find_path_fail ==
    /\ pc = "loop"
    /\ unexplored = {}
    /\ path' = <<>>
    /\ pc' = "done"
    /\ UNCHANGED <<start, end, unexplored, contains, previous, cost_so_far,
                   puts, raised, call, otherVarsOfPath>>

(***************************************************************************)
(* Initial values: the state right after the objects are constructed.      *)
(***************************************************************************)
\* Player ids are powers of two.
PlayerIds == {2 ^ k : k \in 1..MaxPlayers}

NoGeometry == [x |-> 0, y |-> 0, width |-> 0, height |-> 0]

\* The viewport of a view: (left, right, bottom, top).
Viewport(left, right, bottom, top) ==
    [left |-> left, right |-> right, bottom |-> bottom, top |-> top]

\* Window.__init__, lines 104-116: the menu view is 0, the Game views are
\* numbered from 1 in the order of their construction.
MenuView == 0

\* LoadingScreen(loaded_view=view): the view shown while view is loading.
LoadingScreen(loaded_view) == -2 - loaded_view

\* The Window as constructed: every view is constructed showing the bottom
\* left corner of the world, and the SaveManager has found no saved game.
WindowInit ==
    /\ viewport = Viewport(0, SCREEN_WIDTH, 0, SCREEN_HEIGHT)
    /\ viewports = [view \in LoadingScreen(MaxViews)..MaxViews |-> viewport]
    /\ saved_games = EmptyDict
    /\ files = {}
    /\ shelves = {}

\* What a callback handed on: to which handler, and the coordinates passed
\* (-1 where none are).
Forwarded(callback, handler, x, y) ==
    [callback |-> callback, handler |-> handler, x |-> x, y |-> y]

NoCallback == Forwarded("none", "none", -1, -1)

\* Window.__init__, lines 104-116: the menu view exists and is shown behind
\* its LoadingScreen, there is no game view, no Game was constructed, and
\* the cursor and the keyboard handler are active.
AppInit ==
    /\ game_view = None
    /\ map_loaded = FALSE
    /\ things_to_load = <<>>
    /\ current_view = LoadingScreen(MenuView)
    /\ views = 0
    /\ views_unloaded = {}
    /\ cursor_active = TRUE
    /\ keyboard_active = TRUE
    /\ forwarded = NoCallback

\* group_of_waypoints has not been called.
WaypointsInit ==
    /\ wp_pc = "idle"
    /\ required_waypoints = 0
    /\ first_waypoint = <<-1, -1>>
    /\ waypoints = {}
    /\ all_adjacent = <<>>
    /\ wp_node = <<-1, -1>>
    /\ wp_result = {}

\* No function called yet.
FunctionInit == argument = <<>> /\ result = <<>>

\* No condition has had its consequences executed.
RestInit0 ==
    executed = <<>> /\ WindowInit /\ FunctionInit /\ AppInit /\ WaypointsInit

\* No Building yet; the class attributes of IProducer as declared.
BuildingsInit ==
    /\ buildings = {}
    /\ constructed = {}
    /\ geometry = [b \in BuildingIds |-> NoGeometry]
    /\ occupied_nodes = [b \in BuildingIds |-> {}]
    /\ occupied_sectors = [b \in BuildingIds |-> {}]
    /\ produced_objects = <<>>
    /\ production_queue = <<>>
    /\ production_progress = [b \in BuildingIds |-> 0]
    /\ production_per_frame = [b \in BuildingIds |-> 0]
    /\ is_producing = [b \in BuildingIds |-> FALSE]
    /\ run = NoRun
    /\ requested = <<>>

\* No call of find_path yet.
PathInit ==
    /\ pc = "idle"
    /\ start = NoGrid
    /\ end = NoGrid
    /\ unexplored = {}
    /\ contains = {}
    /\ previous = EmptyDict
    /\ cost_so_far = EmptyDict
    /\ path = <<>>
    /\ puts = EmptyDict

\* Game.__init__: no player registered; no Mission yet.
MissionInit ==
    /\ mission = FALSE
    /\ index = 0
    /\ campaign = FALSE
    /\ players = {}
    /\ victory_points = [p \in PlayerIds |-> 0]
    /\ required_victory_points = [p \in PlayerIds |-> 0]
    /\ ended = FALSE
    /\ winner = None
    /\ winner_object = None
    /\ conditions = <<>>
    /\ game_players = {}
    /\ local_human_player = None
    /\ local_object = None
    /\ player_object = [p \in PlayerIds |-> None]
    /\ unloaded = FALSE

HistoryInit == call = NoCall /\ before = NoProducerBefore /\ raised = "none"

(***************************************************************************)
(* Production: Buildings of one texture are constructed on one site and    *)
(* their IProducer methods are called in any order.                        *)
(***************************************************************************)
Site == <<90, 90>>

\* The scenarios stop asking for products and stop the frames of an idle
\* producer when the queue holds MaxQueue entries.
HasRoom == Len(production_queue) < MaxQueue

MayUpdate(self) ==
    is_producing[self] \/ production_queue = <<>> \/ HasRoom

SiteTexture == <<20, 20>>

Init ==
    /\ MapInit(MapSide, MapSide)
    /\ BuildingsInit
    /\ PathInit
    /\ MissionInit
    /\ RestInit0
    /\ missions = <<>>
    /\ HistoryInit

\* The Buildings constructed here.
Producers == 1..MaxProducers

Next ==
    \/ \E self \in Producers, produces \in ProducesOptions :
           Building__init__(self, Site[1], Site[2],
                            SiteTexture[1], SiteTexture[2], produces)
    \/ \E self \in Producers, product \in Products :
           HasRoom /\ start_production(self, product)
    \/ \E self \in Producers : _toggle_production(self)
    \/ \E self \in Producers : cancel_production(self)
    \/ \E self \in Producers : MayUpdate(self) /\ update_production(self)
    \/ \E self \in Producers : finish_production(self)

Spec == Init /\ [][Next]_vars

\* Everything but the history variables.
programVars ==
    <<mapVars, buildingVars, produced_objects, production_queue,
      production_progress, production_per_frame, is_producing, pathVars,
      missionVars, campaignVars, gameVars>>

(***************************************************************************)
(* Claims about production.                                                *)
(***************************************************************************)

\* C1: after start_production(X) of an allowed product X with
\* production_per_frame = 25, the first three update_production calls leave
\* production_progress at 25, 50 and 75, and the fourth leaves it at 0 with
\* the queue one entry shorter than right after the start.
C1_ProductionCycle ==
    (run.n >= 0 /\ rate_of(run.product) = 25) =>
        /\ run.n \in 0..3 => production_progress[run.self] = 25 * run.n
        /\ run.n = 4 =>
              /\ production_progress[run.self] = 0
              /\ Len(production_queue) = run.q0 - 1

\* C2: whatever state cancel_production is called in, it leaves the
\* producer with production_progress = 0, an empty production queue and
\* is_producing false.
C2_CancelResets ==
    call.op = "cancel_production" =>
        /\ production_progress[call.self] = 0
        /\ production_queue = <<>>
        /\ ~is_producing[call.self]

\* C2 happens: cancel_production was called on a producer that was
\* producing, with progress accumulated and entries queued.
C2_Witness ==
    /\ call.op = "cancel_production"
    /\ before.producing
    /\ before.progress > 0
    /\ before.queue # <<>>
    /\ production_progress[call.self] = 0
    /\ production_queue = <<>>

\* C10: start_production(P) changes nothing when the class of P is not in
\* produced_objects; otherwise it puts exactly one entry, P, at the front
\* of the queue, sets production_progress to 0 and production_per_frame to
\* the rate configured for P.
C10_StartProduction ==
    [][\A self \in BuildingIds, product \in Products :
          call' = Call("start_production", self, product, -1, NoGrid) =>
              IF class_of(product) \notin Range(produced_objects)
              THEN UNCHANGED programVars
              ELSE /\ production_queue' = <<product>> \o production_queue
                   /\ production_progress'[self] = 0
                   /\ production_per_frame'[self] = rate_of(product)]_vars

\* C10 happens: an allowed product was put in front of a queue that held
\* another product, on a producer with progress accumulated.
C10_Witness ==
    /\ call.op = "start_production"
    /\ class_of(call.product) \in Range(produced_objects)
    /\ before.queue # <<>>
    /\ before.queue[1] # call.product
    /\ before.progress > 0
    /\ production_queue[1] = call.product
    /\ production_progress[call.self] = 0

\* C11: the producer follows Idle -> Producing -> Idle: start_production of
\* an allowed product leaves an idle producer with is_producing true;
\* finish_production and cancel_production leave a producing one with
\* is_producing false; update_production on an idle producer with a
\* non-empty queue leaves it with is_producing true.
C11_StateMachine ==
    [][\A self \in BuildingIds :
          /\ \A product \in Products :
                 ( /\ call' = Call("start_production", self, product, -1,
                                   NoGrid)
                   /\ class_of(product) \in Range(produced_objects)
                   /\ ~is_producing[self] )
                 => is_producing'[self]
          /\ ( /\ call'.op \in {"finish_production", "cancel_production"}
               /\ call'.self = self
               /\ is_producing[self] )
             => ~is_producing'[self]
          /\ ( /\ call' = Call("update_production", self, "", -1, NoGrid)
               /\ ~is_producing[self]
               /\ production_queue # <<>> )
             => is_producing'[self]]_vars

\* The rank of the entry of the queue that was added first.
oldest(req) == CHOOSE r \in ranks(req) : \A t \in ranks(req) : r <= t

\* The entry of the queue that a step removed: the one whose rank is gone.
removed_ranks == ranks(requested) \ ranks(requested')

\* C12 as stated: finish_production on a queue of several entries removes
\* the entry added last.
C12_LastRequestedFirst ==
    [][\A self \in BuildingIds :
          ( /\ call' = Call("finish_production", self, "", -1, NoGrid)
            /\ Len(production_queue) >= 2 )
          => removed_ranks = {Len(requested)}]_vars

\* C12: finish_production on a queue of several entries removes exactly one
\* entry, the one added first of those in the queue, so that completions
\* happen in first-requested-first order.
C12_FirstRequestedFirst ==
    [][\A self \in BuildingIds :
          ( /\ call' = Call("finish_production", self, "", -1, NoGrid)
            /\ Len(production_queue) >= 2 )
          => /\ removed_ranks = {oldest(requested)}
             /\ Len(production_queue') = Len(production_queue) - 1
             /\ \E i \in 1..Len(production_queue) :
                    /\ requested[i] = oldest(requested)
                    /\ production_queue' =
                           [j \in 1..(Len(production_queue) - 1) |->
                               production_queue[IF j < i THEN j ELSE j + 1]]
       ]_vars

\* C12 happens: finish_production was called on a queue of two different
\* products and left the one requested later.
C12_Witness ==
    /\ call.op = "finish_production"
    /\ Len(before.queue) >= 2
    /\ before.queue[1] # before.queue[Len(before.queue)]
    /\ production_queue = SubSeq(before.queue, 1, Len(before.queue) - 1)
    /\ raised = "none"

(***************************************************************************)
(* Two producers: every Building constructed has its IProducer methods     *)
(* called.                                                                 *)
(***************************************************************************)
NextTwoProducers ==
    \/ \E self \in BuildingIds, produces \in ProducesOptions :
           Building__init__(self, Site[1], Site[2],
                            SiteTexture[1], SiteTexture[2], produces)
    \/ \E self \in BuildingIds, product \in Products :
           HasRoom /\ start_production(self, product)
    \/ \E self \in BuildingIds : _toggle_production(self)
    \/ \E self \in BuildingIds : cancel_production(self)
    \/ \E self \in BuildingIds : MayUpdate(self) /\ update_production(self)
    \/ \E self \in BuildingIds : finish_production(self)

SpecTwoProducers == Init /\ [][NextTwoProducers]_vars

\* self.production_queue and self.produced_objects: no method assigns the
\* attribute on the instance, so both read the attribute of the class.
production_queue_of(self) == production_queue
produced_objects_of(self) == produced_objects

\* C13: constructing a producer, or calling start_production,
\* cancel_production, update_production or finish_production on it, leaves
\* the queue and the allowed-product list of every other Building
\* unchanged.
C13_OwnQueueAndList ==
    [][\A self \in BuildingIds, other \in constructed :
          ( /\ other # self
            /\ call'.self = self
            /\ call'.op \in {"Building", "start_production",
                              "cancel_production", "update_production",
                              "finish_production"} )
          => /\ production_queue_of(other)' = production_queue_of(other)
             /\ produced_objects_of(other)' = produced_objects_of(other)
       ]_vars

(***************************************************************************)
(* missions.py: Mission and Campaign; game.py: the Game a Mission reaches  *)
(* through its class attribute game. Players are named by their ids.       *)
(***************************************************************************)
\* The history variable before, for a call on a Mission: the Mission's
\* participants, ended flag and winner when the call was made, and the
\* points and the required points of the player the call names.
MissionBefore(participants, wasEnded, oldWinner, points, required) ==
    [players |-> participants, ended |-> wasEnded, winner |-> oldWinner,
     points |-> points, required |-> required]

NoMissionBefore == MissionBefore({}, FALSE, None, 0, 0)

otherVarsOfMission ==
    <<mapVars, buildingVars, producerVars, pathVars, restVars>>

\* A new Player object of the given id.  The objects of one id are told
\* apart by a number; a new one gets the least number that none of the
\* references to a Player of the id holds: Game.players[id],
\* Game.local_human_player and Mission.winner.
new_object(id) ==
    LET held == {player_object[id]}
                \cup (IF local_human_player = id THEN {local_object} ELSE {})
                \cup (IF winner = id THEN {winner_object} ELSE {})
    IN  CHOOSE n \in (1..4) \ held : \A m \in (1..4) \ held : n <= m

\* Game.register_player_or_faction, for a Player
register_player_or_faction(id) ==
    /\ ~unloaded
    /\ id \notin game_players
    /\ game_players' = game_players \cup {id}
    /\ player_object' = [player_object EXCEPT ![id] = new_object(id)]
    /\ raised' = "none"
    /\ call' = Call("register_player_or_faction", id, "", -1, NoGrid)
    /\ before' = NoMissionBefore
    /\ UNCHANGED <<local_human_player, local_object, unloaded, missionVars,
                   campaignVars,
                   otherVarsOfMission>>

\* Game.unregister_player_or_faction, for a Player: del self.players[id]
\* raises KeyError for an id that is not registered.
unregister_player_or_faction(id) ==
    /\ ~unloaded
    /\ game_players' = game_players \ {id}
    /\ player_object' = [player_object EXCEPT ![id] = None]
    /\ raised' = IF id \in game_players THEN "none" ELSE "KeyError"
    /\ call' = Call("unregister_player_or_faction", id, "", -1, NoGrid)
    /\ before' = NoMissionBefore
    /\ UNCHANGED <<local_human_player, local_object, unloaded, missionVars,
                   campaignVars,
                   otherVarsOfMission>>

\* The id of a Player constructed without one: the least power of two
\* that no registered Player has.
next_free_id(taken) ==
    CHOOSE id \in PlayerIds \ taken :
        \A other \in PlayerIds \ taken : id <= other

\* Game.test_factions_and_players_creation: a Player of id 2 and a
\* CpuPlayer are constructed, and self.players[2] becomes the local human
\* player.  Where the constructors register the new Players in
\* Game.players, the CpuPlayer under the next free id, the lookup finds the
\* new Player of id 2; where they do not, it finds the Player registered
\* under id 2 before, and raises KeyError when there is none.
test_factions_and_players_creation(registering) ==
    LET cpu == next_free_id(game_players \cup {HUMAN_PLAYER_ID})
    IN  /\ ~unloaded
        /\ registering =>
               PlayerIds \ (game_players \cup {HUMAN_PLAYER_ID}) # {}
        /\ game_players' =
               IF registering
               THEN game_players \cup {HUMAN_PLAYER_ID, cpu}
               ELSE game_players
        /\ player_object' =
               IF registering
               THEN [player_object EXCEPT
                        ![HUMAN_PLAYER_ID] = new_object(HUMAN_PLAYER_ID),
                        ![cpu] = new_object(cpu)]
               ELSE player_object
        /\ local_human_player' = IF HUMAN_PLAYER_ID \in game_players'
                                 THEN HUMAN_PLAYER_ID
                                 ELSE local_human_player
        /\ local_object' = IF HUMAN_PLAYER_ID \in game_players'
                           THEN player_object'[HUMAN_PLAYER_ID]
                           ELSE local_object
        /\ raised' = IF HUMAN_PLAYER_ID \in game_players'
                     THEN "none"
                     ELSE "KeyError"
        /\ call' = Call("test_factions_and_players_creation", -1, "", -1,
                        NoGrid)
        /\ before' = NoMissionBefore
        /\ UNCHANGED <<unloaded, missionVars, campaignVars,
                       otherVarsOfMission>>

\* Game.unload
unload ==
    /\ local_human_player' = None
    /\ local_object' = None
    /\ game_players' = {}
    /\ player_object' = [p \in PlayerIds |-> None]
    /\ unloaded' = TRUE
    /\ raised' = "none"
    /\ call' = Call("unload", -1, "", -1, NoGrid)
    /\ before' = NoMissionBefore
    /\ UNCHANGED <<missionVars, campaignVars, otherVarsOfMission>>

\* Campaign.__init__: a campaign of n missions, of which mission 0 alone
\* is unblocked (the flag of mission i is "not i").
Campaign__init__(n) == missions = [i \in 0..(n - 1) |-> i = 0]

\* Mission.__init__
Mission__init__(hasCampaign, idx) ==
    /\ mission' = TRUE
    /\ index' = idx
    /\ campaign' = hasCampaign
    /\ players' = {}
    /\ victory_points' = [p \in PlayerIds |-> 0]
    /\ required_victory_points' = [p \in PlayerIds |-> 0]
    /\ ended' = FALSE
    /\ winner' = None
    /\ winner_object' = None
    /\ conditions' = <<>>
    /\ raised' = "none"
    /\ call' = Call("Mission", -1, "", idx, NoGrid)
    /\ before' = NoMissionBefore
    /\ UNCHANGED <<campaignVars, gameVars, otherVarsOfMission>>

\* Mission.add_players
add_players(ps) ==
    /\ mission
    /\ players' = players \cup ps
    /\ victory_points' =
           [p \in PlayerIds |-> IF p \in ps THEN 0 ELSE victory_points[p]]
    /\ required_victory_points' =
           [p \in PlayerIds |->
               IF p \in ps THEN 0 ELSE required_victory_points[p]]
    /\ raised' = "none"
    /\ call' = Call("add_players", -1, "", Cardinality(ps), NoGrid)
    /\ before' = NoMissionBefore
    /\ UNCHANGED <<mission, index, campaign, ended, winner, winner_object,
                   conditions,
                   campaignVars, gameVars, otherVarsOfMission>>

\* Mission.new_condition, as add_conditions calls it for each condition: a
\* condition of the given player carrying the given victory points
new_condition(player, points, optional) ==
    /\ mission
    /\ Len(conditions) < MaxConditions
    /\ conditions' = Append(conditions,
           [player |-> player, victory_points |-> points,
            optional |-> optional])
    /\ required_victory_points' =
           IF ~optional /\ points > 0
           THEN [required_victory_points EXCEPT ![player] = @ + points]
           ELSE required_victory_points
    /\ raised' = "none"
    /\ call' = Call("new_condition", player, "", points, NoGrid)
    /\ before' = NoMissionBefore
    /\ UNCHANGED <<mission, index, campaign, players, victory_points, ended,
                   winner, winner_object, campaignVars, gameVars,
                   otherVarsOfMission>>

\* Mission.end_mission with notify_player, called with game.players[id] as
\* winner. The lookup raises KeyError for an id that is not registered;
\* after the two assignments notify_player calls Game.toggle_pause with the
\* keyword arguments dialog and color, which it does not take: TypeError.
end_mission(id) ==
    IF id \in game_players
    THEN /\ ended' = TRUE
         /\ winner' = id
         /\ winner_object' = player_object[id]
         /\ raised' = "TypeError"
    ELSE /\ UNCHANGED <<ended, winner, winner_object>>
         /\ raised' = "KeyError"

\* Mission.check_for_last_survivor, on the participants left after discard
check_for_last_survivor(left) ==
    IF Cardinality(left) = 1
    THEN /\ players' = {}
         /\ end_mission(CHOOSE id \in left : TRUE)
    ELSE /\ players' = left
         /\ raised' = "none"
         /\ UNCHANGED <<ended, winner, winner_object>>

\* Mission.eliminate_player: player.kill(), the discard of the player's id
\* and check_for_last_survivor.  Where Player.kill unregisters the Player
\* from the Game, Game.unregister_player_or_faction deletes its entry of
\* Game.players and raises KeyError when there is none, before the discard.
eliminate_player(player, unregistering) ==
    /\ mission
    /\ IF unregistering /\ player \notin game_players
       THEN /\ raised' = "KeyError"
            /\ UNCHANGED <<players, ended, winner, winner_object,
                           game_players, player_object>>
       ELSE /\ game_players' = IF unregistering
                               THEN game_players \ {player}
                               ELSE game_players
            /\ player_object' =
                   IF unregistering
                   THEN [player_object EXCEPT ![player] = None]
                   ELSE player_object
            /\ check_for_last_survivor(players \ {player})
    /\ call' = Call("eliminate_player", player, "", -1, NoGrid)
    /\ before' = MissionBefore(players, ended, winner, 0, 0)
    /\ UNCHANGED <<mission, index, campaign, victory_points,
                   required_victory_points, conditions, campaignVars,
                   local_human_player, local_object, unloaded,
                   otherVarsOfMission>>

\* Mission.check_victory_points, on the points the player has now
check_victory_points(player_id, points) ==
    IF points >= required_victory_points[player_id]
       /\ required_victory_points[player_id] > 0
    THEN end_mission(player_id)
    ELSE /\ raised' = "none"
         /\ UNCHANGED <<ended, winner, winner_object>>

\* Mission.add_victory_points
add_victory_points(player, points) ==
    /\ mission
    /\ victory_points[player] + points \in 0..MaxPoints
    /\ victory_points' =
           [victory_points EXCEPT ![player] = @ + points]
    /\ check_victory_points(player, victory_points[player] + points)
    /\ call' = Call("add_victory_points", player, "", points, NoGrid)
    /\ before' = MissionBefore({}, ended, winner, 0, 0)
    /\ UNCHANGED <<mission, index, campaign, players,
                   required_victory_points, conditions, campaignVars,
                   gameVars, otherVarsOfMission>>

\* Campaign.update unblocking the mission after the next one
Campaign_update_body_Skip(idx) ==
    missions' = IF (idx + 2) \in DOMAIN missions
                THEN [missions EXCEPT ![idx + 2] = TRUE]
                ELSE missions

\* Campaign.update unblocking the finished mission itself
Campaign_update_body_SameIndex(idx) ==
    missions' = IF idx \in DOMAIN missions
                THEN [missions EXCEPT ![idx] = TRUE]
                ELSE missions

\* The body of Campaign.update for a finished mission of index idx: the
\* KeyError of a missing index idx + 1 is caught.
Campaign_update_body(idx) ==
    missions' = IF (idx + 1) \in DOMAIN missions
                THEN [missions EXCEPT ![idx + 1] = TRUE]
                ELSE missions

\* Campaign.update
Campaign_update(idx) ==
    /\ Campaign_update_body(idx)
    /\ raised' = "none"
    /\ call' = Call("Campaign.update", -1, "", idx, NoGrid)
    /\ before' = NoMissionBefore
    /\ UNCHANGED <<missionVars, gameVars, otherVarsOfMission>>

\* Mission.quit_mission: the campaign is updated when the winner is the
\* very object that is the local human player (or both are None); then
\* show_view makes the menu the current view, so that the current viewport
\* is the menu's; then
\* Window.quit_current_game is called with the keyword argument
\* ignore_confirmation, which it does not take: TypeError, and the
\* reference to the game view is kept.
quit_mission ==
    /\ mission
    /\ IF /\ campaign
          /\ winner = local_human_player
          /\ winner_object = local_object
       THEN Campaign_update_body(index)
       ELSE UNCHANGED missions
    /\ current_view' = MenuView
    /\ viewport' = viewports[MenuView]
    /\ raised' = "TypeError"
    /\ call' = Call("quit_mission", -1, "", index, NoGrid)
    /\ before' = NoMissionBefore
    /\ UNCHANGED <<missionVars, gameVars, mapVars, buildingVars, producerVars,
                   pathVars, executed, viewports, saved_games, files, shelves,
                   functionVars, waypointVars>>
    /\ UNCHANGED <<game_view, map_loaded, things_to_load, views,
                   views_unloaded, cursor_active, keyboard_active, forwarded>>

MissionHistoryInit ==
    call = NoCall /\ before = NoMissionBefore /\ raised = "none"

(***************************************************************************)
(* Missions without a campaign: the human player joins with any of the     *)
(* others, players are eliminated in any order, and the human player       *)
(* scores towards one kind of condition.                                   *)
(***************************************************************************)
InitMission ==
    /\ MapInit(0, 0)
    /\ BuildingsInit
    /\ PathInit
    /\ MissionInit
    /\ RestInit0
    /\ missions = <<>>
    /\ MissionHistoryInit

NextMission ==
    \/ \E id \in PlayerIds : register_player_or_faction(id)
    \/ \E id \in PlayerIds : unregister_player_or_faction(id)
    \/ Mission__init__(FALSE, 0)
    \/ \E ps \in SUBSET (PlayerIds \ {HUMAN_PLAYER_ID}) :
           add_players(ps \cup {HUMAN_PLAYER_ID})
    \/ new_condition(HUMAN_PLAYER_ID, 2, FALSE)
    \/ \E p \in PlayerIds, unregistering \in BOOLEAN :
           eliminate_player(p, unregistering)
    \/ add_victory_points(HUMAN_PLAYER_ID, 2)

SpecMission == InitMission /\ [][NextMission]_vars

(***************************************************************************)
(* Victory points: two players score any points towards any conditions.    *)
(***************************************************************************)
Scorers == {HUMAN_PLAYER_ID, 2 * HUMAN_PLAYER_ID}

PointsOptions == {0, 1, 2}

ConditionPoints == {0, 3}

NextPoints ==
    \/ \E id \in Scorers : register_player_or_faction(id)
    \/ \E id \in Scorers : unregister_player_or_faction(id)
    \/ Mission__init__(FALSE, 0)
    \/ \E ps \in SUBSET Scorers : add_players(ps)
    \/ \E p \in Scorers, points \in ConditionPoints, optional \in BOOLEAN :
           new_condition(p, points, optional)
    \/ \E p \in Scorers, points \in PointsOptions :
           add_victory_points(p, points)

SpecPoints == InitMission /\ [][NextPoints]_vars

(***************************************************************************)
(* A campaign on its own: Campaign.update is called for finished missions  *)
(* of any index.                                                           *)
(***************************************************************************)
InitCampaign ==
    /\ MapInit(0, 0)
    /\ BuildingsInit
    /\ PathInit
    /\ MissionInit
    /\ RestInit0
    /\ \E n \in 0..MaxMissions : Campaign__init__(n)
    /\ MissionHistoryInit

NextCampaign == \E idx \in (-2)..MaxMissions : Campaign_update(idx)

SpecCampaign == InitCampaign /\ [][NextCampaign]_vars

(***************************************************************************)
(* Campaign missions played and quit: missions of a campaign are created,  *)
(* won by points or by the elimination of the other player, or left        *)
(* unfinished, and quit; the Game may be unloaded.                         *)
(***************************************************************************)
NextQuit ==
    \/ \E id \in Scorers : register_player_or_faction(id)
    \/ \E registering \in BOOLEAN :
           test_factions_and_players_creation(registering)
    \/ unload
    \/ \E hasCampaign \in BOOLEAN, idx \in DOMAIN missions :
           Mission__init__(hasCampaign, idx)
    \/ add_players(Scorers)
    \/ new_condition(HUMAN_PLAYER_ID, 2, FALSE)
    \/ add_victory_points(HUMAN_PLAYER_ID, 2)
    \/ \E unregistering \in BOOLEAN :
           eliminate_player(2 * HUMAN_PLAYER_ID, unregistering)
    \/ quit_mission

SpecQuit == InitCampaign /\ [][NextQuit]_vars

(***************************************************************************)
(* Claims about missions and campaigns.                                    *)
(***************************************************************************)

\* C6: eliminate_player(B) in a mission whose participants are {A, B}
\* leaves the participants equal to {A} and the mission ended with A as
\* its winner; an elimination that leaves three or more participants does
\* not end the mission.
C6_Elimination ==
    [][\A p \in PlayerIds :
          call' = Call("eliminate_player", p, "", -1, NoGrid) =>
              /\ (/\ Cardinality(players) = 2
                  /\ p \in players
                  /\ players \subseteq game_players) =>
                     /\ players' = players \ {p}
                     /\ ended'
                     /\ winner' \in players \ {p}
              /\ Cardinality(players \ {p}) >= 3 =>
                     /\ ended' = ended
                     /\ winner' = winner]_vars

\* C7: add_victory_points(P, n) ends the mission with P as winner exactly
\* when P's total after the call reaches or exceeds P's required threshold
\* and that threshold is positive; a call that leaves the total below the
\* threshold, or a threshold of 0, leaves ended and winner as they were.
C7_VictoryByPoints ==
    [][\A p \in PlayerIds, n \in PointsOptions :
          call' = Call("add_victory_points", p, "", n, NoGrid) =>
              IF /\ required_victory_points[p] > 0
                 /\ victory_points[p] + n >= required_victory_points[p]
              THEN ended' /\ winner' = p
              ELSE ended' = ended /\ winner' = winner]_vars

\* C8: a campaign starts with mission 0 alone unblocked; Campaign.update
\* for a finished mission of index k unblocks mission k + 1 and changes no
\* other flag, and changes nothing and raises nothing when there is no
\* mission k + 1.
C8_CampaignUnlock ==
    /\ \A i \in DOMAIN missions : missions[i] = (i = 0)
    /\ [][\A k \in (-2)..MaxMissions :
             call' = Call("Campaign.update", -1, "", k, NoGrid) =>
                 /\ missions' = [i \in DOMAIN missions |->
                                    IF i = k + 1 THEN TRUE ELSE missions[i]]
                 /\ raised' = "none"]_vars

\* C8 happens: in a campaign of three or more missions, finishing mission 0
\* unblocked mission 1 and left mission 2 blocked.
C8_Witness ==
    /\ call.op = "Campaign.update"
    /\ call.n = 0
    /\ 2 \in DOMAIN missions
    /\ missions[1]
    /\ ~missions[2]

\* C9: a campaign mission k + 1 becomes unblocked only by quit_mission of
\* the campaign mission of index k that has ended with the local human
\* player as its winner.
C9_UnlockOnlyByVictory ==
    [][\A j \in DOMAIN missions :
          (~missions[j] /\ missions'[j]) =>
              /\ call'.op = "quit_mission"
              /\ campaign
              /\ index = j - 1
              /\ ended
              /\ winner # None
              /\ winner = local_human_player]_vars

(***************************************************************************)
(* Mission.update: conditions are added to a Mission and evaluated tick by *)
(* tick. A tick's input is the set of the conditions that report is_met.   *)
(***************************************************************************)
\* A Condition: the one of the human player that carries k victory points.
Condition(k) ==
    [player |-> HUMAN_PLAYER_ID, victory_points |-> k, optional |-> TRUE]

Conditions == {Condition(k) : k \in 1..MaxTickConditions}

\* Condition.is_met, in a tick in which the conditions of met are met
is_met(condition, met) == condition \in met

\* Condition.execute_consequences: the condition is recorded as executed.
execute_consequences(condition, done) == Append(done, condition)

\* list.remove: the list without the first element equal to the condition
remove(list, condition) ==
    LET first == CHOOSE i \in 1..Len(list) :
                     /\ list[i] = condition
                     /\ \A j \in 1..(i - 1) : list[j] # condition
    IN  [j \in 1..(Len(list) - 1) |-> list[IF j < first THEN j ELSE j + 1]]

\* The loop of Mission.evaluate_conditions from position i of the list: the
\* generator reads the list by position while the loop body removes from
\* it. The value is the list and the executed conditions at the end.
RECURSIVE evaluate_from(_, _, _, _)
evaluate_from(list, i, met, done) ==
    IF i > Len(list)
    THEN [conditions |-> list, executed |-> done]
    ELSE IF is_met(list[i], met)
         THEN evaluate_from(remove(list, list[i]), i + 1, met,
                            execute_consequences(list[i], done))
         ELSE evaluate_from(list, i + 1, met, done)

\* Mission.evaluate_conditions
evaluate_conditions(list, met) == evaluate_from(list, 1, met, <<>>)

\* The history variable before, for a tick: the active conditions and the
\* conditions met when update was called.
TickBefore(list, met) == [conditions |-> list, met |-> met]

\* Mission.add_conditions with optional left True: the conditions are
\* appended in their order.
add_conditions(list) ==
    /\ mission
    /\ Len(conditions) + Len(list) <= MaxTickConditions
    /\ \A i \in 1..Len(list) :
           /\ list[i] \notin Range(conditions)
           /\ \A j \in 1..Len(list) : list[i] = list[j] => i = j
    /\ conditions' = conditions \o list
    /\ executed' = <<>>
    /\ raised' = "none"
    /\ call' = Call("add_conditions", -1, "", Len(list), NoGrid)
    /\ before' = TickBefore(conditions, {})
    /\ UNCHANGED <<mission, index, campaign, players, victory_points,
                   required_victory_points, ended, winner, winner_object,
                   campaignVars,
                   gameVars, mapVars, buildingVars, producerVars, pathVars,
                   windowVars, functionVars, appVars, waypointVars>>

\* Mission.remove_condition: list.remove raises ValueError for a condition
\* that is not in the list; no consequence is executed.
remove_condition(condition) ==
    /\ mission
    /\ IF condition \in Range(conditions)
       THEN conditions' = remove(conditions, condition) /\ raised' = "none"
       ELSE conditions' = conditions /\ raised' = "ValueError"
    /\ executed' = <<>>
    /\ call' = Call("remove_condition", -1, "", condition.victory_points,
                    NoGrid)
    /\ before' = TickBefore(conditions, {})
    /\ UNCHANGED <<mission, index, campaign, players, victory_points,
                   required_victory_points, ended, winner, winner_object,
                   campaignVars,
                   gameVars, mapVars, buildingVars, producerVars, pathVars,
                   windowVars, functionVars, appVars, waypointVars>>

\* Mission.update, in a tick in which the conditions of met are met
Mission_update(met) ==
    LET after == evaluate_conditions(conditions, met)
    IN  /\ mission
        /\ conditions' = after.conditions
        /\ executed' = after.executed
        /\ raised' = "none"
        /\ call' = Call("update", -1, "", -1, NoGrid)
        /\ before' = TickBefore(conditions, met)
        /\ UNCHANGED <<mission, index, campaign, players, victory_points,
                       required_victory_points, ended, winner, winner_object,
                       campaignVars,
                       gameVars, mapVars, buildingVars, producerVars,
                       pathVars, windowVars, functionVars, appVars,
                       waypointVars>>

\* A Mission without conditions has been constructed.
InitUpdate ==
    /\ MapInit(0, 0)
    /\ BuildingsInit
    /\ PathInit
    /\ MissionInit
    /\ RestInit0
    /\ missions = <<>>
    /\ call = NoCall
    /\ before = TickBefore(<<>>, {})
    /\ raised = "none"

NextUpdate ==
    \/ Mission__init__(FALSE, 0)
    \/ \E c \in Conditions : add_conditions(<<c>>)
    \/ \E c \in Conditions, d \in Conditions : add_conditions(<<c, d>>)
    \/ \E c \in Conditions : remove_condition(c)
    \/ \E met \in SUBSET Range(conditions) : Mission_update(met)

SpecUpdate == InitUpdate /\ [][NextUpdate]_vars

\* How many times the condition is in the list.
count(list, condition) ==
    Cardinality({i \in 1..Len(list) : list[i] = condition})

\* C14: after one Mission.update() call every condition that was active and
\* met has had its consequences executed exactly once and is not in the
\* list any more, and the conditions that were not met are the list, in
\* their original order.
C14_UpdateEvaluatesAll ==
    call.op = "update" =>
        /\ \A c \in Range(before.conditions) \cap before.met :
               /\ count(executed, c) = 1
               /\ c \notin Range(conditions)
        /\ conditions =
               SelectSeq(before.conditions, LAMBDA c : c \notin before.met)

(***************************************************************************)
(* Path searches. The maps are drawn with their occupants in place, as     *)
(* units and buildings left them through the setters of MapNode.           *)
(***************************************************************************)
Grid(c, r) == (0..(c - 1)) \X (0..(r - 1))

\* A map of c columns and r rows with a unit on every tile of unitTiles and
\* the building on every tile of buildingTiles; the units and the building
\* have the id 1.
OccupiedMap(c, r, unitTiles, buildingTiles) ==
    LET Occupant == 1 IN
    /\ columns = c
    /\ rows = r
    /\ unit_id = [n \in Grid(c, r) |->
                     IF n \in unitTiles THEN Occupant ELSE None]
    /\ building_id = [n \in Grid(c, r) |->
                         IF n \in buildingTiles THEN Occupant ELSE None]
    /\ map_units = [n \in unitTiles |-> Occupant]
    /\ map_buildings = [n \in buildingTiles |-> Occupant]
    /\ map_width = c * TILE_WIDTH
    /\ map_height = r * TILE_HEIGHT
    /\ sectors = NoSectors

RestInit ==
    /\ BuildingsInit
    /\ PathInit
    /\ MissionInit
    /\ RestInit0
    /\ missions = <<>>
    /\ HistoryInit

\* The tile the building of a small map stands on, if the map has one.
BuildingTile == <<1, 1>>

\* Any search on a small square map with units on any tiles, with or
\* without the building.
InitPath ==
    /\ \E side \in 1..MaxSide :
          \E unitTiles \in SUBSET Grid(side, side),
             buildingTiles \in SUBSET ({BuildingTile} \cap Grid(side, side)) :
                OccupiedMap(side, side, unitTiles, buildingTiles)
    /\ RestInit

NextPath ==
    \/ \E s \in nodes, e \in nodes : find_path(s, e)
    \/ find_path_loop
    \/ find_path_fail

SpecPath == InitPath /\ [][NextPath]_vars

\* A search by the unit that stands on the tile start: the tiles next to it
\* hold any units, one of them may hold the building instead, and the rest
\* of the small square map is free.
InitNear ==
    /\ \E side \in 1..MaxSide :
          \E s \in Grid(side, side) :
             LET near == {g \in Grid(side, side) :
                             /\ g # s
                             /\ g[1] - s[1] \in -1..1
                             /\ g[2] - s[2] \in -1..1}
             IN  \E unitTiles \in SUBSET near,
                    buildingTiles \in SUBSET ({BuildingTile} \cap near) :
                    /\ OccupiedMap(side, side, unitTiles \ buildingTiles,
                                   buildingTiles)
                    /\ start = s
    /\ BuildingsInit
    /\ pc = "idle"
    /\ end = NoGrid
    /\ unexplored = {}
    /\ contains = {}
    /\ previous = EmptyDict
    /\ cost_so_far = EmptyDict
    /\ path = <<>>
    /\ puts = EmptyDict
    /\ MissionInit
    /\ RestInit0
    /\ missions = <<>>
    /\ HistoryInit

NextNear ==
    \/ \E e \in nodes : find_path(start, e)
    \/ find_path_loop
    \/ find_path_fail

SpecNear == InitNear /\ [][NextNear]_vars

\* The search from corner (0, 0) to the opposite corner of a square map
\* with no unit or with a unit on one tile.
InitCorner ==
    /\ \E side \in 1..MaxCorner :
          \E unitTiles \in {{}} \cup {{tile} : tile \in Grid(side, side)} :
              OccupiedMap(side, side, unitTiles, {})
    /\ RestInit

NextCorner ==
    \/ find_path(<<0, 0>>, <<columns - 1, rows - 1>>)
    \/ find_path_loop
    \/ find_path_fail

SpecCorner == InitCorner /\ [][NextCorner]_vars

(***************************************************************************)
(* Claims about path searches.                                             *)
(***************************************************************************)
Returned == pc = "done"

\* C4: on a map of N x N tiles without occupants, find_path from (0, 0) to
\* (N - 1, N - 1) returns a path that is not empty, starts at the centre of
\* the start tile, ends at the centre of the goal tile and has at most
\* N - 1 hops.
C4_OpenGridPath ==
    (/\ Returned
     /\ \A n \in nodes : walkable(n)) =>
        /\ path # <<>>
        /\ path[1] = <<TILE_WIDTH \div 2, TILE_HEIGHT \div 2>>
        /\ path[Len(path)] =
               <<(columns - 1) * TILE_WIDTH + TILE_WIDTH \div 2,
                 (rows - 1) * TILE_HEIGHT + TILE_HEIGHT \div 2>>
        /\ Len(path) - 1 <= columns - 1

\* C4 happens: the search on the open map of MaxCorner x MaxCorner tiles
\* returned the diagonal route.
C4_Witness ==
    /\ Returned
    /\ columns = MaxCorner
    /\ \A n \in nodes : walkable(n)
    /\ Len(path) = MaxCorner
    /\ path[2] = <<TILE_WIDTH + TILE_WIDTH \div 2,
                   TILE_HEIGHT + TILE_HEIGHT \div 2>>

\* C5: when every in-bounds neighbour of the start tile is occupied, by a
\* unit or by a building, and the goal is another tile, find_path returns
\* the empty path and raises nothing.
C5_BlockedStart ==
    (/\ Returned
     /\ start # end
     /\ \A k \in 1..Len(node_adjacent_nodes(start)) :
            LET n == node_adjacent_nodes(start)[k]
            IN  unit_id[n] # None \/ building_id[n] # None) =>
        /\ path = <<>>
        /\ raised = "none"

\* C5 happens: a search from a corner of the 3 x 3 map, whose neighbours
\* hold two units and the building, to the free opposite corner returned
\* the empty path.
C5_Witness ==
    /\ Returned
    /\ columns = 3
    /\ start = <<0, 0>>
    /\ end = <<2, 2>>
    /\ walkable(end)
    /\ unit_id[<<0, 1>>] # None
    /\ unit_id[<<1, 0>>] # None
    /\ unit_id[<<1, 1>>] = None
    /\ building_id[<<1, 1>>] # None
    /\ path = <<>>

(***************************************************************************)
(* Buildings on the map: Buildings of several texture sizes are            *)
(* constructed on tiles of the map and killed, in any order.  The Map is   *)
(* that of map.py, or a Map that keeps the Sectors of its nodes, which     *)
(* have no member yet.                                                     *)
(***************************************************************************)
InitBuildings ==
    /\ generate_nodes(MapSide, MapSide)
    /\ sectors \in {NoSectors,
                    [s \in {sector_of(n) : n \in Grid(MapSide, MapSide)}
                        |-> {}]}
    /\ RestInit

\* The positions asked for: the centres of the tiles on the diagonal of
\* the map and of the tiles just above it, which are tiles in both
\* corners, along the left and the upper border and inside the map.
Positions ==
    {grid_to_position(g) :
        g \in {t \in Grid(MapSide, MapSide) : t[2] - t[1] \in {0, 1}}}

\* Texture sizes of one, four and six tiles of the building module.
Textures ==
    {<<BUILDING_TILE_WIDTH, BUILDING_TILE_HEIGHT>>,
     <<2 * BUILDING_TILE_WIDTH, 2 * BUILDING_TILE_HEIGHT>>,
     <<2 * BUILDING_TILE_WIDTH, 3 * BUILDING_TILE_HEIGHT>>}

NextBuildings ==
    \/ \E self \in BuildingIds, position \in Positions, texture \in Textures :
           Building__init__(self, position[1], position[2],
                            texture[1], texture[2], NoProduces)
    \/ \E self \in BuildingIds : kill(self)

SpecBuildings == InitBuildings /\ [][NextBuildings]_vars

\* The node lies under the sprite of Building self: its column and row are
\* among those the sprite's left, right, bottom and top edges span in tiles
\* of the building module.
InFootprint(self, node) ==
    LET g == geometry[self]
    IN  /\ 2 * (node[1] + 1) * BUILDING_TILE_WIDTH > 2 * g.x - g.width
        /\ 2 * (node[1] + 1) * BUILDING_TILE_WIDTH <= 2 * g.x + g.width
        /\ 2 * (node[2] + 1) * BUILDING_TILE_HEIGHT > 2 * g.y - g.height
        /\ 2 * (node[2] + 1) * BUILDING_TILE_HEIGHT <= 2 * g.y + g.height

\* C3: the construction of a Building whose footprint lies on the map sets
\* the building occupant of every node of the footprint, and the entry of
\* Map.buildings for it, to the Building and leaves the node unwalkable,
\* and leaves the building occupant and the walkability of every other
\* node as they were; kill leaves every node of the footprint walkable and
\* with no building occupant.
C3_FootprintClaimed ==
    [][/\ ( /\ call'.op = "Building"
            /\ LET g == geometry'[call'.self]
                   grids == footprint_grids(g.x, g.y, g.width, g.height)
               IN  \A k \in 1..Len(grids) : InMap(grids[k]) )
          => \A n \in nodes :
                 IF (InFootprint(call.self, n))'
                 THEN /\ building_id'[n] = call'.self
                      /\ map_buildings'[n] = call'.self
                      /\ ~(walkable(n))'
                 ELSE /\ building_id'[n] = building_id[n]
                      /\ (walkable(n))' <=> walkable(n)
       /\ call'.op = "kill"
          => \A n \in nodes :
                 (InFootprint(call.self, n))' =>
                     (walkable(n))' /\ building_id'[n] = None]_vars

\* C3 happens: a Building whose footprint of four nodes or more lay on the
\* map was killed and torn down; its nodes are walkable.
C3_Witness ==
    /\ call.op = "kill"
    /\ raised = "none"
    /\ call.self \notin buildings
    /\ Cardinality(occupied_nodes[call.self]) >= 4
    /\ \A n \in nodes :
           InFootprint(call.self, n) <=> n \in occupied_nodes[call.self]
    /\ \A n \in occupied_nodes[call.self] :
           walkable(n) /\ building_id[n] = None

(***************************************************************************)
(* game.py: the viewport of the Window over the world of the game's Map.   *)
(***************************************************************************)
\* utils/functions.py: clamp without the lower limit
clamp_NoMinimum(value, maximum, minimum) ==
    IF value <= maximum THEN value ELSE maximum

\* utils/functions.py: clamp = max(minimum, min(value, maximum))
clamp(value, maximum, minimum) ==
    LET least == IF value <= maximum THEN value ELSE maximum
    IN  IF minimum >= least THEN minimum ELSE least

\* Window.update_viewport_coordinates: the viewport of the current view is
\* set; then, while the game is running (the game view is the current
\* view), Game.update_interface_position moves the interface and the
\* mini map, and raises AttributeError when the Game's mini_map is still
\* None: it is loaded after the map.
update_viewport_coordinates(new_bottom, new_left) ==
    /\ viewport' = Viewport(new_left, new_left + SCREEN_WIDTH,
                            new_bottom, new_bottom + SCREEN_HEIGHT)
    /\ viewports' = [viewports EXCEPT ![current_view] = viewport']
    /\ raised' = IF /\ game_view # None
                    /\ current_view = game_view
                    /\ ~(map_loaded /\ "mini_map" \notin Range(things_to_load))
                 THEN "AttributeError"
                 ELSE "none"

otherVarsOfWindow ==
    <<mapVars, buildingVars, producerVars, pathVars, missionVars,
      campaignVars, gameVars, executed, saved_games, files, shelves,
      functionVars,
      appVars, waypointVars>>

\* Window.change_viewport: self.game_view.map raises AttributeError when
\* there is no Game, and game_map.width when the Game's map is None, before
\* the viewport is touched.
change_viewport(dx, dy) ==
    LET new_left == clamp(viewport.left - dx, map_width - SCREEN_WIDTH, 0)
        new_bottom ==
            clamp(viewport.bottom - dy, map_height - SCREEN_HEIGHT, 0)
    IN  /\ IF game_view = None \/ ~map_loaded
           THEN /\ UNCHANGED <<viewport, viewports>>
                /\ raised' = "AttributeError"
           ELSE update_viewport_coordinates(new_bottom, new_left)
        /\ call' = Call("change_viewport", -1, "", -1, <<dx, dy>>)
        /\ before' = viewport
        /\ UNCHANGED otherVarsOfWindow

\* Window.move_viewport_to_the_position: self.game_view.map raises
\* AttributeError when there is no Game, and game_map.width when the Game's
\* map is None, before the viewport is touched.
move_viewport_to_the_position(x, y) ==
    LET new_left == clamp(x - SCREEN_X, map_width - SCREEN_WIDTH, 0)
        new_bottom == clamp(y - SCREEN_Y, map_height - SCREEN_HEIGHT, 0)
    IN  /\ IF game_view = None \/ ~map_loaded
           THEN /\ UNCHANGED <<viewport, viewports>>
                /\ raised' = "AttributeError"
           ELSE update_viewport_coordinates(new_bottom, new_left)
        /\ call' = Call("move_viewport_to_the_position", -1, "", -1,
                        <<x, y>>)
        /\ before' = viewport
        /\ UNCHANGED otherVarsOfWindow

\* The world is a Map of whole tiles, smaller or larger than the screen.
InitViewport ==
    /\ \E c \in 1..MaxViewColumns, r \in 1..MaxViewRows : MapInit(c, r)
    /\ BuildingsInit
    /\ PathInit
    /\ MissionInit
    /\ RestInit0
    /\ missions = <<>>
    /\ call = NoCall
    /\ before = viewport
    /\ raised = "none"

\* The movement deltas of the mouse.
Deltas == {-70, -30, 0, 30, 70}

\* The coordinates of the points clicked: the two ends and the middle of
\* the world.
Clicks(limit) == {0, limit \div 2, limit}

\* C15: after a call of change_viewport or move_viewport_to_the_position
\* that returned, 0 <= left <= world width - screen width and 0 <= bottom
\* <= world height - screen height, with right = left + screen width and
\* top = bottom + screen height.
C15_ViewportInWorld ==
    ( /\ call.op \in {"change_viewport", "move_viewport_to_the_position"}
      /\ raised = "none" )
        => /\ 0 <= viewport.left
           /\ viewport.left <= map_width - SCREEN_WIDTH
           /\ 0 <= viewport.bottom
           /\ viewport.bottom <= map_height - SCREEN_HEIGHT
           /\ viewport.right = viewport.left + SCREEN_WIDTH
           /\ viewport.top = viewport.bottom + SCREEN_HEIGHT

\* C15 as the methods keep it: the viewport of the current view always has
\* 0 <= left <= max(0, world width - screen width) and 0 <= bottom <=
\* max(0, world height - screen height), with right = left + screen width
\* and top = bottom + screen height.
C15_ViewportInWorldOrAtOrigin ==
    /\ 0 <= viewport.left
    /\ viewport.left <= Max(0, map_width - SCREEN_WIDTH)
    /\ 0 <= viewport.bottom
    /\ viewport.bottom <= Max(0, map_height - SCREEN_HEIGHT)
    /\ viewport.right = viewport.left + SCREEN_WIDTH
    /\ viewport.top = viewport.bottom + SCREEN_HEIGHT

\* C15 happens: in a world narrower than the screen and higher than it,
\* change_viewport was asked to scroll to the right and past the top edge;
\* the viewport stayed at the left edge and stopped at the top edge.
C15_Witness ==
    /\ call.op = "change_viewport"
    /\ raised = "none"
    /\ map_width < SCREEN_WIDTH
    /\ call.grid[1] < 0
    /\ before.bottom < map_height - SCREEN_HEIGHT
    /\ before.bottom - call.grid[2] > map_height - SCREEN_HEIGHT
    /\ viewport.left = 0
    /\ viewport.bottom = map_height - SCREEN_HEIGHT

(***************************************************************************)
(* map.py: the conversions of GridHandler, called with every pixel         *)
(* position of a world.                                                    *)
(***************************************************************************)
otherVarsOfFunction ==
    <<mapVars, buildingVars, producerVars, pathVars, missionVars,
      campaignVars, gameVars, executed, windowVars, appVars,
      waypointVars, before>>

\* GridHandler.grid_to_position(GridHandler.position_to_grid(x, y)), called
\* once with the argument drawn
to_grid_and_back ==
    /\ call = NoCall
    /\ result' = grid_to_position(position_to_grid(argument[1], argument[2]))
    /\ raised' = "none"
    /\ call' = Call("grid_to_position", -1, "", -1, NoGrid)
    /\ UNCHANGED <<argument, otherVarsOfFunction>>

\* GridHandler.normalize_position(x, y), called once with the argument drawn
normalize ==
    /\ call = NoCall
    /\ result' = normalize_position(argument[1], argument[2])
    /\ raised' = "none"
    /\ call' = Call("normalize_position", -1, "", -1, NoGrid)
    /\ UNCHANGED <<argument, otherVarsOfFunction>>

\* A world of whole tiles, and a pixel position inside it as the argument.
InitGrid ==
    /\ \E c \in 1..MaxGridSide, r \in 1..MaxGridSide : MapInit(c, r)
    /\ BuildingsInit
    /\ PathInit
    /\ MissionInit
    /\ executed = <<>>
    /\ WindowInit
    /\ AppInit
    /\ WaypointsInit
    /\ argument \in (0..(map_width - 1)) \X (0..(map_height - 1))
    /\ result = <<>>
    /\ missions = <<>>
    /\ HistoryInit

NextGrid == to_grid_and_back \/ normalize

SpecGrid == InitGrid /\ [][NextGrid]_vars

\* The point is the centre of a tile of the grid, and the tile contains the
\* position: the tile's left and bottom edges are whole multiples of the
\* tile size, half a tile from the point, and the position lies from them
\* up to, not including, the right and top edges.
IsCentreOfTileOf(point, position) ==
    LET left == point[1] - TILE_WIDTH \div 2
        bottom == point[2] - TILE_HEIGHT \div 2
    IN  /\ left % TILE_WIDTH = 0
        /\ bottom % TILE_HEIGHT = 0
        /\ left <= position[1] /\ position[1] < left + TILE_WIDTH
        /\ bottom <= position[2] /\ position[2] < bottom + TILE_HEIGHT

\* C16: for every pixel position (x, y) inside the world,
\* grid_to_position(position_to_grid(x, y)) is the centre of the tile that
\* contains (x, y), and normalize_position maps that centre to itself.
C16_TileCentre ==
    call.op \in {"grid_to_position", "normalize_position"} =>
        /\ IsCentreOfTileOf(result, argument)
        /\ normalize_position(result[1], result[2]) = result
        /\ grid_to_position(position_to_grid(result[1], result[2])) = result

\* C16 happens: a position on the last pixel column and the first pixel row
\* of a tile that is not the first was converted, to a point that is not
\* the position.
C16_Witness ==
    /\ call.op = "grid_to_position"
    /\ argument[1] >= TILE_WIDTH
    /\ argument[1] % TILE_WIDTH = TILE_WIDTH - 1
    /\ argument[2] % TILE_HEIGHT = 0
    /\ result # argument
    /\ result[1] < argument[1]
    /\ result[2] > argument[2]

(***************************************************************************)
(* utils/functions.py: get_enemies. Its integers pass 2^31, so an integer  *)
(* n is kept as the pair <<n \div Base, n % Base>> and compared, halved    *)
(* and subtracted by limbs.                                                *)
(***************************************************************************)
Base == 2 ^ LimbBits

Big(high, low) == <<high, low>>

\* 2 ^ k
PowerOfTwo(k) ==
    IF k >= LimbBits THEN Big(2 ^ (k - LimbBits), 0) ELSE Big(0, 2 ^ k)

\* a < b
BigLess(a, b) == a[1] < b[1] \/ (a[1] = b[1] /\ a[2] < b[2])

\* a + b
BigSum(a, b) ==
    LET low == a[2] + b[2]
    IN  IF low >= Base THEN Big(a[1] + b[1] + 1, low - Base)
        ELSE Big(a[1] + b[1], low)

\* a - b
BigDifference(a, b) ==
    LET low == a[2] - b[2]
    IN  IF low < 0 THEN Big(a[1] - b[1] - 1, low + Base)
        ELSE Big(a[1] - b[1], low)

\* a >> 1
ShiftRight(a) == Big(a[1] \div 2, (a[1] % 2) * (Base \div 2) + a[2] \div 2)

\* The while loop of get_enemies, left when index (idx) is not above stop.
RECURSIVE search_index(_, _, _)
search_index(idx, war, stop) ==
    IF BigLess(stop, idx) /\ BigLess(war, idx)
    THEN search_index(ShiftRight(idx), war, stop)
    ELSE idx

\* get_enemies with its loop left at 4
get_enemies_StopAt4(war) ==
    LET idx == search_index(PowerOfTwo(33), war, PowerOfTwo(2))
    IN  <<idx, BigDifference(war, idx)>>

\* get_enemies: index (idx) starts at 8589934592 = 2 ^ 33
get_enemies(war) ==
    LET idx == search_index(PowerOfTwo(33), war, PowerOfTwo(1))
    IN  <<idx, BigDifference(war, idx)>>

\* get_enemies(a + b), called once with the pair of ids drawn
get_enemies_of_pair ==
    /\ call = NoCall
    /\ result' = get_enemies(BigSum(argument[1], argument[2]))
    /\ raised' = "none"
    /\ call' = Call("get_enemies", -1, "", -1, NoGrid)
    /\ UNCHANGED <<argument, otherVarsOfFunction>>

\* The argument is a pair of different player ids: powers of two a > b.
InitEnemies ==
    /\ MapInit(0, 0)
    /\ BuildingsInit
    /\ PathInit
    /\ MissionInit
    /\ executed = <<>>
    /\ WindowInit
    /\ AppInit
    /\ WaypointsInit
    /\ \E i \in 1..MaxExponent, j \in 0..(MaxExponent - 1) :
           /\ j < i
           /\ argument = <<PowerOfTwo(i), PowerOfTwo(j)>>
    /\ result = <<>>
    /\ missions = <<>>
    /\ HistoryInit

NextEnemies == get_enemies_of_pair

SpecEnemies == InitEnemies /\ [][NextEnemies]_vars

\* C17: for every pair of different player ids a > b that are powers of two
\* (b >= 1, a up to 2^32), get_enemies(a + b) is (a, b).
C17_EnemiesOfSum ==
    call.op = "get_enemies" => result = <<argument[1], argument[2]>>

\* C17 happens: the sum of the ids 2 and 1, for which the loop runs to its
\* end, and a sum with the id 2^32 have been taken apart.
C17_Witness ==
    /\ call.op = "get_enemies"
    /\ \/ argument = <<PowerOfTwo(1), PowerOfTwo(0)>>
       \/ argument[1] = PowerOfTwo(32)
    /\ result[1] = argument[1]
    /\ result[2] = argument[2]

(***************************************************************************)
(* persistency/save_handling.py: SaveManager. A path is the name of a file *)
(* in the directory of saves and the extension appended to it; files holds *)
(* the paths at which the disk has a file.                                 *)
(***************************************************************************)
SaveNames == {"alpha", "bravo", "charlie"}

\* os.path.join(path_to_saves, name) + extension
SavePath(name, extension) == [name |-> name, extension |-> extension]

\* SaveManager.find_all_game_saves: each name found, with its path
find_all_game_saves(names) == [name \in names |-> SavePath(name, "")]

\* del d[k]
DictDelete(d, k) == [x \in (DOMAIN d) \ {k} |-> d[x]]

\* The history variable before, for a call on the SaveManager: the table
\* and the files on the disk when the call was made.
SavesBefore(table, disk) == [saved_games |-> table, files |-> disk]

otherVarsOfSaves ==
    <<mapVars, buildingVars, producerVars, pathVars, missionVars,
      campaignVars, gameVars, executed, viewport, viewports, result,
      appVars, waypointVars>>

\* SaveManager.delete_saved_game: the lookup raises KeyError, which is not
\* caught; os.remove raises FileNotFoundError, which is.
delete_saved_game(save_name) ==
    /\ IF save_name \notin DOMAIN saved_games
       THEN /\ raised' = "KeyError"
            /\ UNCHANGED <<saved_games, files, shelves>>
       ELSE IF saved_games[save_name] \notin files
            THEN /\ raised' = "none"
                 /\ UNCHANGED <<saved_games, files, shelves>>
            ELSE /\ files' = files \ {saved_games[save_name]}
                 /\ shelves' = shelves \ {saved_games[save_name]}
                 /\ saved_games' = DictDelete(saved_games, save_name)
                 /\ raised' = "none"
    /\ argument' = <<save_name>>
    /\ call' = Call("delete_saved_game", -1, "", -1, NoGrid)
    /\ before' = SavesBefore(saved_games, files)
    /\ UNCHANGED otherVarsOfSaves

\* os.rename succeeds for this call: the table lists the old name, its file
\* is on the disk and the operating system reports no other error.
renames(table, disk, old_name, os_error) ==
    /\ old_name \in DOMAIN table
    /\ table[old_name] \in disk
    /\ ~os_error

\* SaveManager.rename_saved_game: every exception is logged and dropped.
\* os.rename moves the file with what it holds, over any file at the new
\* path.
rename_saved_game(old_name, new_name, os_error) ==
    LET new == SavePath(new_name, SAVE_EXTENSION)
    IN  /\ IF renames(saved_games, files, old_name, os_error)
           THEN /\ files' = (files \ {saved_games[old_name]}) \cup {new}
                /\ shelves' =
                       IF saved_games[old_name] \in shelves
                       THEN (shelves \ {saved_games[old_name]}) \cup {new}
                       ELSE shelves \ {saved_games[old_name], new}
                /\ saved_games' =
                       DictDelete(DictPut(saved_games, new_name, new),
                                  old_name)
           ELSE UNCHANGED <<saved_games, files, shelves>>
        /\ raised' = "none"
        /\ argument' = <<old_name, new_name, os_error>>
        /\ call' = Call("rename_saved_game", -1, "", -1, NoGrid)
        /\ before' = SavesBefore(saved_games, files)
        /\ UNCHANGED otherVarsOfSaves

\* dbm.whichdb of the path of a name, as shelve.open asks it: "dbm.dumb"
\* when the .dat and .dir files are there; else None when no file is at the
\* path, "dbm.gnu" when the file there starts with the GNU dbm magic number,
\* and "" for any other file.
whichdb(name, disk, gnu) ==
    IF  /\ SavePath(name, SAVE_EXTENSION \o ".dat") \in disk
        /\ SavePath(name, SAVE_EXTENSION \o ".dir") \in disk
    THEN "dbm.dumb"
    ELSE IF SavePath(name, SAVE_EXTENSION) \notin disk THEN "None"
    ELSE IF SavePath(name, SAVE_EXTENSION) \in gnu THEN "dbm.gnu"
    ELSE ""

\* SaveManager.save_game: the shelf is opened at the path of the name with
\* the extension and filled from the game; the table is not written.
\* shelve.open has dbm.open find the kind of the database at the path and
\* raises dbm.error ("error") when a file is there that no dbm module of
\* the build opens; where nothing is there, the first module of the build
\* makes the database: dbm.gnu one file, dbm.dumb (when dumb, the only
\* module of the build) its three files. With no Game (Window.save_game
\* passes self.game_view) game.map raises AttributeError after the shelf was
\* opened; dbm.dumb then writes the .dir and .bak files only when it found
\* no .dir file.
save_game(save_name, has_game, dumb) ==
    LET full_save_path == SavePath(save_name, SAVE_EXTENSION)
        kind == whichdb(save_name, files, shelves)
        module == IF kind = "None"
                  THEN IF dumb THEN "dbm.dumb" ELSE "dbm.gnu"
                  ELSE kind
        opens == kind # "" /\ ~(kind = "dbm.gnu" /\ dumb)
        dumb_files == {SavePath(save_name, SAVE_EXTENSION \o suffix) :
                          suffix \in {".bak", ".dat", ".dir"}}
        commits == has_game
                   \/ SavePath(save_name, SAVE_EXTENSION \o ".dir")
                          \notin files
    IN  /\ IF ~opens
           THEN /\ raised' = "error"
                /\ UNCHANGED <<files, shelves>>
           ELSE /\ raised' = IF has_game THEN "none" ELSE "AttributeError"
                /\ IF module = "dbm.dumb"
                   THEN /\ files' =
                               files \cup
                               IF commits THEN dumb_files
                               ELSE {SavePath(save_name,
                                              SAVE_EXTENSION \o ".dat")}
                        /\ UNCHANGED shelves
                   ELSE /\ files' = files \cup {full_save_path}
                        /\ shelves' = shelves \cup {full_save_path}
        /\ argument' = <<save_name>>
        /\ call' = Call("save_game", -1, "", -1, NoGrid)
        /\ before' = SavesBefore(saved_games, files)
        /\ UNCHANGED <<saved_games, otherVarsOfSaves>>

\* A file of a saved game is removed from the disk by another program.
file_removed(file) ==
    /\ file \in files
    /\ files' = files \ {file}
    /\ shelves' = shelves \ {file}
    /\ raised' = "none"
    /\ call' = Call("file_removed", -1, "", -1, NoGrid)
    /\ before' = SavesBefore(saved_games, files)
    /\ UNCHANGED <<saved_games, argument, otherVarsOfSaves>>

\* The SaveManager as constructed: it lists the saved games found on the
\* disk, which are GNU dbm databases, all of them or none.
InitSaves ==
    /\ MapInit(0, 0)
    /\ BuildingsInit
    /\ PathInit
    /\ MissionInit
    /\ executed = <<>>
    /\ viewport = Viewport(0, SCREEN_WIDTH, 0, SCREEN_HEIGHT)
    /\ viewports = [view \in LoadingScreen(MaxViews)..MaxViews |-> viewport]
    /\ \E names \in SUBSET SaveNames :
           /\ saved_games = find_all_game_saves(names)
           /\ files = {SavePath(name, "") : name \in names}
    /\ shelves \in {{}, files}
    /\ FunctionInit
    /\ AppInit
    /\ WaypointsInit
    /\ missions = <<>>
    /\ call = NoCall
    /\ before = SavesBefore(saved_games, files)
    /\ raised = "none"

\* The name Window.save_game saves under, "save_01", here one of the names.
SavedAs == "bravo"

NextSaves ==
    \/ \E name \in SaveNames : delete_saved_game(name)
    \/ \E old \in SaveNames, new \in SaveNames, os_error \in BOOLEAN :
           rename_saved_game(old, new, os_error)
    \/ \E file \in files : file_removed(file)
    \/ \E has_game \in BOOLEAN, dumb \in BOOLEAN :
           save_game(SavedAs, has_game, dumb)

SpecSaves == InitSaves /\ [][NextSaves]_vars

\* Every entry of the table before the call, but the one of the name, is in
\* the table as it was.
OthersUnchanged(name) ==
    \A other \in (DOMAIN before.saved_games) \ {name} :
        /\ other \in DOMAIN saved_games
        /\ saved_games[other] = before.saved_games[other]

\* C18: delete_saved_game(name) for a save that does not exist (the name is
\* not in the table, or its file is missing) raises nothing and leaves
\* every other entry of the table unchanged.
C18_DeleteMissingIsSilent ==
    ( /\ call.op = "delete_saved_game"
      /\ \/ argument[1] \notin DOMAIN before.saved_games
         \/ before.saved_games[argument[1]] \notin before.files )
    => /\ raised = "none"
       /\ OthersUnchanged(argument[1])

\* C19: whenever delete_saved_game(name) returns, the table holds no entry
\* for name, also when the table listed name and its file had been removed.
C19_DeletedNameIsGone ==
    (call.op = "delete_saved_game" /\ raised = "none")
    => argument[1] \notin DOMAIN saved_games

\* C20: rename_saved_game(old, new) lets no exception escape; when the file
\* is renamed the table then maps new to the renamed file and contains old
\* only if old = new; when anything fails the table is left unchanged.
C20_RenameUpdatesTable ==
    call.op = "rename_saved_game" =>
        /\ raised = "none"
        /\ IF renames(before.saved_games, before.files,
                      argument[1], argument[3])
           THEN /\ argument[2] \in DOMAIN saved_games
                /\ saved_games[argument[2]] =
                       SavePath(argument[2], SAVE_EXTENSION)
                /\ saved_games[argument[2]] \in files
                /\ argument[1] \in DOMAIN saved_games
                       => argument[1] = argument[2]
           ELSE saved_games = before.saved_games

(***************************************************************************)
(* map.py: the movement costs stored by Map.__init__.                      *)
(***************************************************************************)
\* MapNode.costs of the node after calculate_distances_between_nodes: one
\* entry, in tenths, for every in-bounds grid next to the node's position
node_costs(node) ==
    LET position == grid_to_position(node)
        grids == adjacent_nodes(position[1], position[2])
    IN  [grid \in {grids[i] : i \in 1..Len(grids)} |-> costs(node, grid)]

\* The grid is one of the eight around the node.
IsMooreNeighbour(node, grid) ==
    /\ grid # node
    /\ node[1] - grid[1] \in {-1, 0, 1}
    /\ node[2] - grid[2] \in {-1, 0, 1}

\* C24: after Map construction every node stores, for every in-bounds Moore
\* neighbour, the cost 1.4 (14 tenths) when the neighbour differs from it
\* in both column and row and 1.0 (10 tenths) otherwise, and stores no cost
\* for any other coordinate.
C24_MovementCosts ==
    \A node \in nodes :
        /\ DOMAIN node_costs(node) =
               {grid \in nodes : IsMooreNeighbour(node, grid)}
        /\ \A grid \in DOMAIN node_costs(node) :
               node_costs(node)[grid] =
                   IF grid[1] # node[1] /\ grid[2] # node[2] THEN 14 ELSE 10

(***************************************************************************)
(* Path searches around a wall: a square map one tile wider than the small *)
(* maps, with units on any tiles of its second column.                     *)
(***************************************************************************)
InitWall ==
    /\ \E unitTiles \in SUBSET {g \in Grid(MaxSide + 1, MaxSide + 1) :
                                   g[1] = 1} :
           OccupiedMap(MaxSide + 1, MaxSide + 1, unitTiles, {})
    /\ RestInit

\* The searches start on the wall's column or on the column to its left
\* and go to any tile.
NextWall ==
    \/ \E s \in {n \in nodes : n[1] <= 1}, e \in nodes : find_path(s, e)
    \/ find_path_loop
    \/ find_path_fail

SpecWall == InitWall /\ [][NextWall]_vars

\* The movement cost of a step between two adjacent tiles, in tenths: the
\* cost the map stores for it, nodes[from].costs[to], which is 1 for a
\* diagonal step and 1.4 for another.
step_cost(from, to) == costs(from, to)

\* The total movement cost of the chain of tiles under a path of positions.
RECURSIVE path_cost(_)
path_cost(positions) ==
    IF Len(positions) < 2 THEN 0
    ELSE step_cost(position_to_grid(positions[1][1], positions[1][2]),
                   position_to_grid(positions[2][1], positions[2][2]))
         + path_cost(Tail(positions))

\* The least costs from the tile s along chains of at most k steps, each
\* step to a walkable Moore-adjacent tile: the pairs of a tile such a chain
\* leads to and the least cost of one.
RECURSIVE least_costs(_, _)
least_costs(s, k) ==
    IF k = 0 THEN {<<s, 0>>}
    ELSE LET shorter == least_costs(s, k - 1)
             steps == {q \in shorter \X nodes :
                          /\ IsMooreNeighbour(q[1][1], q[2])
                          /\ walkable(q[2])}
             chains == shorter \cup
                           {<<q[2], q[1][2] + step_cost(q[1][1], q[2])>> :
                               q \in steps}
         IN  {p \in chains : \A o \in chains : o[1] = p[1] => p[2] <= o[2]}

\* The cost of a cheapest chain of walkable tiles from s to e; inf without
\* one.
shortest_cost(s, e) ==
    LET reached_at == {p \in least_costs(s, Cardinality(nodes)) : p[1] = e}
    IN  IF reached_at = {} THEN inf ELSE (CHOOSE p \in reached_at : TRUE)[2]

\* C25: a non-empty path returned by find_path is a shortest path: no chain
\* of walkable Moore-adjacent tiles from start to goal has a smaller total
\* movement cost.
C25_ShortestPath ==
    (Returned /\ path # <<>>) => path_cost(path) <= shortest_cost(start, end)

(***************************************************************************)
(* Termination of a search: find_path runs its loop to the end once it is  *)
(* called, so every turn of the loop that can be taken is taken.           *)
(***************************************************************************)
SpecWallFair ==
    SpecWall /\ WF_vars(find_path_loop \/ find_path_fail)

\* The sum of the values of a dict of numbers.
RECURSIVE total_of(_)
total_of(d) ==
    IF DOMAIN d = {} THEN 0
    ELSE LET key == CHOOSE k \in DOMAIN d : TRUE
         IN  d[key] + total_of([k \in (DOMAIN d) \ {key} |-> d[k]])

\* The number of get calls of the search so far: every entry put that is
\* not in the queue any more.
dequeues == total_of(puts) - Cardinality(unexplored)

\* C27: during one find_path call every grid position is put into the
\* frontier at most once, the search takes at most as many entries from it
\* as the map has nodes, and the search terminates.
C27_SearchTerminates ==
    /\ [](/\ \A item \in DOMAIN puts : puts[item] <= 1
          /\ dequeues <= Cardinality(nodes))
    /\ (pc = "loop") ~> (pc = "done")

\* C27 happens: a search has ended without a path after it took every tile
\* it ever put from the frontier, more than half the tiles of the map, each
\* of them put once.
C27_Witness ==
    /\ Returned
    /\ path = <<>>
    /\ unexplored = {}
    /\ 2 * dequeues > Cardinality(nodes)
    /\ \A item \in DOMAIN puts : puts[item] = 1

(***************************************************************************)
(* game.py: the Window's views, its input handlers and load_game.          *)
(***************************************************************************)
otherVarsOfApp ==
    <<mapVars, buildingVars, producerVars, pathVars, missionVars,
      campaignVars, executed, saved_games, files, shelves, functionVars,
      waypointVars, before>>

WindowCall(op) == Call(op, -1, "", 0, NoGrid)

\* Window.show_view(new_view), the view having to_load to load: a view
\* that has things to load is shown behind a new LoadingScreen, whose
\* viewport is its own; any other view becomes the current view, and
\* Game.on_show_view switches the cursor and the keyboard on.  Either way
\* the LoadingScreen of the view shown before is dropped, and its viewport
\* with it.  The menu has nothing to load.
show_view(new_view, to_load) ==
    LET requires_loading == new_view # MenuView /\ to_load # <<>>
        shows_game == new_view # MenuView /\ ~requires_loading
    IN  /\ current_view' = IF requires_loading
                           THEN LoadingScreen(new_view) ELSE new_view
        /\ viewports' = [viewports EXCEPT ![LoadingScreen(new_view)] =
                             Viewport(0, SCREEN_WIDTH, 0, SCREEN_HEIGHT)]
        /\ viewport' = viewports'[current_view']
        /\ cursor_active' = IF shows_game THEN TRUE ELSE cursor_active
        /\ keyboard_active' = IF shows_game THEN TRUE ELSE keyboard_active

\* Window.show_view called on the menu view or on the game view, as the
\* menu button of the Game calls it.
Window_show_view(new_view) ==
    /\ new_view \in {MenuView, game_view} \ {None}
    /\ show_view(new_view, things_to_load)
    /\ forwarded' = NoCallback
    /\ raised' = "none"
    /\ call' = WindowCall("show_view")
    /\ UNCHANGED <<game_view, map_loaded, things_to_load, views,
                   views_unloaded, gameVars, otherVarsOfApp>>

\* Window.start_new_game: a Game is constructed only when there is none,
\* with no map, no player and the list of the things to load; then the
\* game view is shown.
start_new_game ==
    LET fresh == game_view = None
        game == IF fresh THEN views + 1 ELSE game_view
        to_load == IF fresh
                   THEN <<"map", "pathfinder", "fog_of_war", "spawner",
                          "explosions_pool", "mini_map", "map_grid">>
                   ELSE things_to_load
    IN  /\ fresh => views < MaxViews
        /\ game_view' = game
        /\ views' = IF fresh THEN views + 1 ELSE views
        /\ map_loaded' = IF fresh THEN FALSE ELSE map_loaded
        /\ things_to_load' = to_load
        /\ game_players' = IF fresh THEN {} ELSE game_players
        /\ player_object' = IF fresh
                            THEN [p \in PlayerIds |-> None]
                            ELSE player_object
        /\ local_human_player' = IF fresh THEN None ELSE local_human_player
        /\ local_object' = IF fresh THEN None ELSE local_object
        /\ unloaded' = IF fresh THEN FALSE ELSE unloaded
        /\ show_view(game, to_load)
        /\ forwarded' = NoCallback
        /\ raised' = "none"
        /\ call' = WindowCall("start_new_game")
        /\ UNCHANGED <<views_unloaded, otherVarsOfApp>>

\* Game.after_loading, which the LoadingScreen of the Game calls when the
\* list of the things to load is empty: the game view is shown, and
\* test_methods calls test_scheduling_events, which reads
\* self.scheduling_test, an attribute the Game does not have:
\* AttributeError, before a Player is made or the viewport is moved.
after_loading ==
    /\ game_view # None
    /\ current_view = LoadingScreen(game_view)
    /\ things_to_load = <<>>
    /\ show_view(game_view, things_to_load)
    /\ forwarded' = NoCallback
    /\ raised' = "AttributeError"
    /\ call' = WindowCall("after_loading")
    /\ UNCHANGED <<game_view, map_loaded, things_to_load, views,
                   views_unloaded, gameVars, otherVarsOfApp>>

\* The loading of a Game view made by start_new_game: the first of the
\* things to load is constructed and set as the attribute of the Game that
\* it names, and removed from the list.
load_next_thing ==
    /\ game_view # None
    /\ things_to_load # <<>>
    /\ map_loaded' = (map_loaded \/ Head(things_to_load) = "map")
    /\ things_to_load' = Tail(things_to_load)
    /\ forwarded' = NoCallback
    /\ raised' = "none"
    /\ call' = WindowCall("load_next_thing")
    /\ UNCHANGED <<game_view, current_view, viewport, views, views_unloaded,
                   cursor_active, keyboard_active, gameVars, viewports, otherVarsOfApp>>

\* Window.quit_current_game takes no argument: called with the keyword
\* ignore_confirmation, as Mission.quit_mission calls it, it raises
\* TypeError before its body runs.  Its body drops the reference to the
\* game view and shows the menu.
quit_current_game(keyword) ==
    /\ IF keyword
       THEN /\ raised' = "TypeError"
            /\ UNCHANGED <<game_view, map_loaded, things_to_load,
                           current_view, viewport>>
       ELSE /\ game_view' = None
            /\ map_loaded' = FALSE
            /\ things_to_load' = <<>>
            /\ current_view' = MenuView
            /\ viewport' = viewports[MenuView]
            /\ raised' = "none"
    /\ forwarded' = NoCallback
    /\ call' = WindowCall("quit_current_game")
    /\ UNCHANGED <<views, views_unloaded, cursor_active, keyboard_active,
                   gameVars, viewports, otherVarsOfApp>>

\* SaveManager.load_game(save_name)
SaveManager_load_game(save_name) ==
    /\ raised' = "NotImplementedError"
    /\ forwarded' = NoCallback
    /\ call' = WindowCall("SaveManager.load_game")
    /\ UNCHANGED <<game_view, map_loaded, things_to_load, current_view,
                   viewport, views, views_unloaded, cursor_active,
                   keyboard_active, gameVars, viewports, otherVarsOfApp>>

\* Window.load_game: the current game view is unloaded, which clears its
\* players, and dropped, and the menu is shown; a Game is constructed from
\* the save, with no map, no player and nothing to load; then
\* SaveManager.load_game, which takes the name of the save only, is called
\* with the name and the view: TypeError, and the body of
\* SaveManager.load_game is not reached.
Window_load_game ==
    /\ views < MaxViews
    /\ views_unloaded' = IF game_view # None
                         THEN views_unloaded \cup {game_view}
                         ELSE views_unloaded
    /\ current_view' = IF game_view # None THEN MenuView ELSE current_view
    /\ viewport' = viewports[current_view']
    /\ game_view' = views + 1
    /\ map_loaded' = FALSE
    /\ things_to_load' = <<>>
    /\ game_players' = {}
    /\ player_object' = [p \in PlayerIds |-> None]
    /\ local_human_player' = None
    /\ local_object' = None
    /\ unloaded' = FALSE
    /\ views' = views + 1
    /\ raised' = "TypeError"
    /\ forwarded' = NoCallback
    /\ call' = WindowCall("Window.load_game")
    /\ UNCHANGED <<cursor_active, keyboard_active, viewports,
                   otherVarsOfApp>>

\* Window.toggle_mouse_and_keyboard
toggle_mouse_and_keyboard(value, only_mouse) ==
    /\ cursor_active' = value
    /\ keyboard_active' = IF only_mouse THEN keyboard_active ELSE value
    /\ forwarded' = NoCallback
    /\ raised' = "none"
    /\ call' = WindowCall("toggle_mouse_and_keyboard")
    /\ UNCHANGED <<game_view, map_loaded, things_to_load, current_view,
                   viewport, views, views_unloaded, gameVars, viewports, otherVarsOfApp>>

\* The five mouse callbacks
MouseCallbacks ==
    {"on_mouse_motion", "on_mouse_press", "on_mouse_release",
     "on_mouse_drag", "on_mouse_scroll"}

\* The callbacks that add the viewport's left and bottom to x and y:
\* on_mouse_motion in the game view, on_mouse_release and on_mouse_drag in
\* every view, on_mouse_press and on_mouse_scroll in none.
shifting(callback) ==
    \/ callback = "on_mouse_motion" /\ current_view = game_view
    \/ callback \in {"on_mouse_release", "on_mouse_drag"}

\* Window.on_mouse_motion, on_mouse_press, on_mouse_release, on_mouse_drag
\* and on_mouse_scroll at the window coordinates x, y: each is guarded by
\* cursor.active.
on_mouse(callback, x, y) ==
    /\ forwarded' =
           IF ~cursor_active THEN Forwarded(callback, "none", -1, -1)
           ELSE IF shifting(callback)
                THEN Forwarded(callback, "cursor", x + viewport.left,
                               y + viewport.bottom)
                ELSE Forwarded(callback, "cursor", x, y)
    /\ raised' = "none"
    /\ call' = Call(callback, -1, "", 0, <<x, y>>)
    /\ UNCHANGED <<game_view, map_loaded, things_to_load, current_view,
                   viewport, views, views_unloaded, cursor_active,
                   keyboard_active, gameVars, viewports, otherVarsOfApp>>

\* Window.on_key_press: guarded by keyboard.active
on_key_press ==
    /\ forwarded' = Forwarded("on_key_press",
                               IF keyboard_active THEN "keyboard" ELSE "none",
                               -1, -1)
    /\ raised' = "none"
    /\ call' = WindowCall("on_key_press")
    /\ UNCHANGED <<game_view, map_loaded, things_to_load, current_view,
                   viewport, views, views_unloaded, cursor_active,
                   keyboard_active, gameVars, viewports, otherVarsOfApp>>

\* Window.on_key_release: forwarded whatever keyboard.active is
on_key_release ==
    /\ forwarded' = Forwarded("on_key_release", "keyboard", -1, -1)
    /\ raised' = "none"
    /\ call' = WindowCall("on_key_release")
    /\ UNCHANGED <<game_view, map_loaded, things_to_load, current_view,
                   viewport, views, views_unloaded, cursor_active,
                   keyboard_active, gameVars, viewports, otherVarsOfApp>>

\* The viewport methods called in any order: before a Game is started,
\* before and after its loading has constructed its map, and after the
\* loading, behind the LoadingScreen and in the game view.
NextViewport ==
    \/ start_new_game
    \/ load_next_thing
    \/ after_loading
    \/ /\ Len(things_to_load) \notin 1..5
       /\ \E dx \in Deltas, dy \in Deltas : change_viewport(dx, dy)
    \/ /\ Len(things_to_load) \notin 1..5
       /\ \E x \in Clicks(map_width), y \in Clicks(map_height) :
              move_viewport_to_the_position(x, y)

SpecViewport == InitViewport /\ [][NextViewport]_vars

\* The window coordinates of the mouse
MousePoints == {0, 40}

\* The Window as constructed; the map is the one a Game view would load.
InitWindow == MapInit(MapSide, MapSide) /\ RestInit

NextWindow ==
    \/ start_new_game
    \/ load_next_thing
    \/ after_loading
    \/ \E new_view \in {MenuView, game_view} : Window_show_view(new_view)
    \/ \E keyword \in BOOLEAN : quit_current_game(keyword)
    \/ \E save_name \in SaveNames : SaveManager_load_game(save_name)
    \/ Window_load_game
    \/ \E value \in BOOLEAN, only_mouse \in BOOLEAN :
           toggle_mouse_and_keyboard(value, only_mouse)
    \/ \E callback \in MouseCallbacks, x \in MousePoints, y \in MousePoints :
           on_mouse(callback, x, y)
    \/ on_key_press
    \/ on_key_release

SpecWindow == InitWindow /\ [][NextWindow]_vars

\* C21: a call of SaveManager.load_game or of Window.load_game ends in
\* NotImplementedError, never in a quiet return or in another exception.
C21_NotImplemented ==
    call.op \in {"SaveManager.load_game", "Window.load_game"}
        => raised = "NotImplementedError"

\* C22: a mouse callback reaches the cursor handler only while cursor.active
\* is set, and a keyboard callback reaches the keyboard handler only while
\* keyboard.active is set.
C22_ForwardedOnlyWhileActive ==
    /\ forwarded.handler = "cursor" => cursor_active
    /\ forwarded.handler = "keyboard" => keyboard_active

\* C23: whenever the reference to the current game view is dropped or
\* replaced, unload() of that view has completed, and no Game is constructed
\* while the current game view is not unloaded.
C23_UnloadBeforeDiscard ==
    [][/\ (game_view # None /\ game_view' # game_view)
           => game_view \in views_unloaded'
       /\ (views' # views /\ game_view # None)
           => game_view \in views_unloaded']_vars

(***************************************************************************)
(* Mission.add_conditions with both values of optional: players are added  *)
(* to a Mission and then conditions of any points are added to it.         *)
(***************************************************************************)
\* The victory points a condition may carry.
ThresholdPoints == {-1, 0, 1, 2}

\* The conditions handed to add_conditions: of any player, with any points.
ThresholdConditions ==
    [player : Scorers, victory_points : ThresholdPoints, optional : {TRUE}]

\* A new_condition that adds the points whatever optional says
required_increase_Always(points, optional) == IF points > 0 THEN points ELSE 0

\* Mission.new_condition, lines 65-66: what the condition adds to the
\* required victory points of its player
required_increase(points, optional) ==
    IF ~optional /\ points > 0 THEN points ELSE 0

\* The loop of Mission.add_conditions from position i of its argument, on
\* the required victory points
RECURSIVE required_after(_, _, _, _)
required_after(required, list, i, optional) ==
    IF i > Len(list) THEN required
    ELSE required_after(
             [required EXCEPT ![list[i].player] =
                  @ + required_increase(list[i].victory_points, optional)],
             list, i + 1, optional)

\* Mission.add_conditions(conditions, optional): new_condition for each
\* condition, in their order; the record of a condition keeps how it was
\* added.
Mission_add_conditions(list, optional) ==
    /\ mission
    /\ Len(conditions) + Len(list) <= MaxTickConditions
    /\ conditions' =
           conditions \o [i \in 1..Len(list) |->
                             [list[i] EXCEPT !.optional = optional]]
    /\ required_victory_points' =
           required_after(required_victory_points, list, 1, optional)
    /\ raised' = "none"
    /\ call' = Call("add_conditions", -1, "", Len(list), NoGrid)
    /\ before' = NoMissionBefore
    /\ UNCHANGED <<mission, index, campaign, players, victory_points, ended,
                   winner, winner_object, campaignVars, gameVars,
                   otherVarsOfMission>>

\* The players are added before the first condition is.
NextThreshold ==
    \/ Mission__init__(FALSE, 0)
    \/ conditions = <<>> /\ \E ps \in SUBSET Scorers : add_players(ps)
    \/ \E c \in ThresholdConditions, optional \in BOOLEAN :
           Mission_add_conditions(<<c>>, optional)
    \/ \E c \in ThresholdConditions, d \in ThresholdConditions,
          optional \in BOOLEAN :
           Mission_add_conditions(<<c, d>>, optional)

SpecThreshold == InitMission /\ [][NextThreshold]_vars

\* The sum of the positive points of the player's conditions from position
\* i on that were added as non-optional.
RECURSIVE required_sum(_, _, _)
required_sum(list, i, player) ==
    IF i > Len(list) THEN 0
    ELSE (IF /\ list[i].player = player
             /\ ~list[i].optional
             /\ list[i].victory_points > 0
          THEN list[i].victory_points ELSE 0)
         + required_sum(list, i + 1, player)

\* C26: after add_players calls followed by add_conditions calls, the
\* required victory points of each player are the sum of the points of the
\* player's conditions that were added as non-optional and carry positive
\* points; optional conditions and conditions of no or negative points add
\* nothing.
C26_RequiredIsSum ==
    mission =>
        \A p \in PlayerIds :
            required_victory_points[p] = required_sum(conditions, 1, p)

C26_Witness ==
    /\ mission
    /\ players = Scorers
    /\ Len(conditions) = MaxTickConditions
    /\ \E i, j, k \in 1..Len(conditions) :
           /\ conditions[i].player = HUMAN_PLAYER_ID
           /\ ~conditions[i].optional /\ conditions[i].victory_points > 0
           /\ conditions[j].player = HUMAN_PLAYER_ID
           /\ conditions[j].optional /\ conditions[j].victory_points > 0
           /\ ~conditions[k].optional /\ conditions[k].victory_points < 0
    /\ required_victory_points[HUMAN_PLAYER_ID] > 0

(***************************************************************************)
(* Buildings whose footprints overlap.                                     *)
(***************************************************************************)
\* C28: after any placements and kills of Buildings, every node under the
\* sprite of a Building that is alive holds a building id (_building_id)
\* and is not walkable.
C28_AliveFootprintBlocked ==
    \A self \in buildings :
        \A n \in nodes :
            InFootprint(self, n) => building_id[n] # None /\ ~walkable(n)

(***************************************************************************)
(* A mission that has ended.                                               *)
(***************************************************************************)
\* C29: once a Mission has ended, add_victory_points, eliminate_player and
\* update leave it ended and leave its winner as it is.
C29_EndedOnce ==
    [][(/\ mission
        /\ ended
        /\ call'.op \in {"add_victory_points", "eliminate_player", "update"})
           => (ended' /\ winner' = winner)]_vars

(***************************************************************************)
(* Frames: Buildings are constructed, a product is asked for while the     *)
(* queue is empty, and update_production is called frame after frame;      *)
(* nothing is cancelled.                                                   *)
(***************************************************************************)
\* A frame of the game for the Building self.
frame(self) == MayUpdate(self) /\ update_production(self)

NextFrames ==
    \/ \E self \in BuildingIds, produces \in ProducesOptions :
           Building__init__(self, Site[1], Site[2],
                            SiteTexture[1], SiteTexture[2], produces)
    \/ /\ production_queue = <<>>
       /\ \E self \in BuildingIds, product \in Products :
              start_production(self, product)
    \/ \E self \in BuildingIds : frame(self)

SpecFrames == Init /\ [][NextFrames]_vars

\* The frames keep coming: every Building is updated again and again.
SpecFramesFair ==
    SpecFrames /\ \A self \in BuildingIds : WF_vars(frame(self))

\* A frame in vain: update_production, called on the producer of an allowed
\* product with a positive production_per_frame in the frames that follow
\* its start_production, found the producer idle with the queue not empty
\* and left it idle with a longer queue.  Every later frame finds the same
\* and does the same: the idle branch of update_production never sets
\* is_producing and never shortens the queue.
frame_in_vain ==
    /\ call.op = "update_production"
    /\ run.self = call.self
    /\ run.n >= 1
    /\ rate_of(run.product) > 0
    /\ ~before.producing
    /\ before.queue # <<>>
    /\ ~is_producing[call.self]
    /\ Len(production_queue) > Len(before.queue)

\* C30: after start_production(X) of an allowed product X with a positive
\* production_per_frame, with update_production called every frame and no
\* cancel, a frame is reached at which X is out of the queue, the queue is
\* empty and is_producing is false: no frame is in vain, and the frames
\* lead from the call to such a state.
C30_ProductionFinishes ==
    /\ [](~frame_in_vain)
    /\ \A self \in BuildingIds, product \in Products :
           ( /\ call = Call("start_production", self, product, -1, NoGrid)
             /\ class_of(product) \in Range(produced_objects)
             /\ rate_of(product) > 0 )
           ~> (production_queue = <<>> /\ ~is_producing[self])

(***************************************************************************)
(* The queue over an update.                                               *)
(***************************************************************************)
\* C31: update_production never adds to the production queue: after every
\* call the queue is as it was, or it is the queue without one entry.
C31_UpdateNeverAdds ==
    [][call'.op = "update_production" =>
           \/ production_queue' = production_queue
           \/ Len(production_queue') = Len(production_queue) - 1]_vars

(***************************************************************************)
(* Building.on_update: one Building is constructed with a produces list    *)
(* and the others without; products are asked of the first, and every      *)
(* Building is updated frame after frame.                                  *)
(***************************************************************************)
\* The Building that is constructed with a produces list.
TheProducer == CHOOSE self \in BuildingIds : \A other \in BuildingIds : self <= other

\* Building.on_update: after the update of the entity, hasattr(self,
\* 'update_production') holds for every Building, since Building inherits
\* from IProducer, and update_production is called.
on_update(self) ==
    /\ self \in buildings
    /\ update_production_body(self)
    /\ run' = IF run.self = self /\ run.n >= 0 /\ run.n < 4
              THEN [run EXCEPT !.n = @ + 1]
              ELSE NoRun
    /\ call' = Call("on_update", self, "", -1, NoGrid)
    /\ before' = ProducerBefore(production_progress[self],
                              production_per_frame[self],
                              is_producing[self], production_queue)
    /\ UNCHANGED <<produced_objects, otherVarsOfProducer>>

NextOnUpdate ==
    \/ \E self \in BuildingIds :
           Building__init__(self, Site[1], Site[2],
                            SiteTexture[1], SiteTexture[2],
                            IF self = TheProducer
                            THEN <<"Tank", "Jeep">> ELSE NoProduces)
    \/ \E product \in Products :
           HasRoom /\ start_production(TheProducer, product)
    \/ \E self \in BuildingIds : MayUpdate(self) /\ on_update(self)

SpecOnUpdate == Init /\ [][NextOnUpdate]_vars

\* C32: on_update of a Building that was constructed without a produces
\* list changes no production state: the queue, and the progress, the
\* increment per frame and is_producing of every Building stay as they are.
C32_OnUpdateOfNonProducer ==
    [][\A self \in BuildingIds \ {TheProducer} :
          call' = Call("on_update", self, "", -1, NoGrid) =>
              UNCHANGED <<production_queue, production_progress,
                          production_per_frame, is_producing>>]_vars

(***************************************************************************)
(* What a search finds.                                                    *)
(***************************************************************************)
\* Some chain of walkable Moore-adjacent tiles leads from s to e.
chain_exists(s, e) == shortest_cost(s, e) # inf

\* C33: find_path returns a non-empty path that ends at the centre of the
\* goal tile whenever a chain of walkable Moore-adjacent tiles leads from
\* the start tile to the goal tile, and the empty path only when there is
\* no such chain.
C33_FindsWhatCanBeReached ==
    Returned =>
        IF chain_exists(start, end)
        THEN path # <<>> /\ path[Len(path)] = grid_to_position(end)
        ELSE path = <<>>

\* C33 happens: a search from the column left of a wall with one gap found
\* a goal on the other side of it.
C33_Witness ==
    /\ Returned
    /\ start[1] = 0
    /\ end[1] > 1
    /\ Cardinality({n \in nodes : ~walkable(n)}) = rows - 1
    /\ path # <<>>
    /\ path[Len(path)] = grid_to_position(end)

\* The tiles under the positions of a path.
tiles_of(positions) ==
    [k \in 1..Len(positions) |->
        position_to_grid(positions[k][1], positions[k][2])]

\* C34: a non-empty path returned by find_path starts at the centre of the
\* start tile and ends at the centre of the goal tile, visits no tile twice,
\* steps only between Moore-adjacent tiles of the map, and every tile after
\* the first is walkable.
C34_WellFormedPath ==
    (Returned /\ path # <<>>) =>
        LET tiles == tiles_of(path)
        IN  /\ path[1] = grid_to_position(start)
            /\ path[Len(path)] = grid_to_position(end)
            /\ \A i, j \in 1..Len(tiles) : tiles[i] = tiles[j] => i = j
            /\ \A i \in 1..Len(tiles) : tiles[i] \in nodes
            /\ \A i \in 1..(Len(tiles) - 1) :
                   IsMooreNeighbour(tiles[i], tiles[i + 1])
            /\ \A i \in 2..Len(tiles) : walkable(tiles[i])

\* C34 happens: a search that started on an occupied tile of the wall
\* returned a path of four tiles or more.
C34_Witness ==
    /\ Returned
    /\ ~walkable(start)
    /\ Len(path) >= 4
    /\ \E n \in nodes : n # start /\ ~walkable(n)
    /\ path[1] = grid_to_position(start)
    /\ path[Len(path)] = grid_to_position(end)

(***************************************************************************)
(* map.py: Map.group_of_waypoints, one turn of its while loop at a time.   *)
(* The counter iteration, which the method increments and never reads, is  *)
(* left out.                                                               *)
(***************************************************************************)
\* The largest number of waypoints asked for.
MaxWaypoints == 5

otherVarsOfWaypoints ==
    <<mapVars, buildingVars, producerVars, pathVars, missionVars,
      campaignVars, gameVars, executed, windowVars, functionVars, appVars,
      before>>

\* Lines 142-145: the call and what comes before the loop; grid_to_node
\* raises KeyError for a position that is not on the map.
group_of_waypoints(x, y, wanted) ==
    /\ wp_pc = "idle"
    /\ required_waypoints' = wanted
    /\ first_waypoint' = position_to_grid(x, y)
    /\ IF InMap(position_to_grid(x, y))
       THEN /\ waypoints' = {position_to_grid(x, y)}
            /\ wp_node' = position_to_grid(x, y)
            /\ wp_pc' = "loop"
            /\ raised' = "none"
       ELSE /\ waypoints' = {position_to_grid(x, y)}
            /\ wp_node' = wp_node
            /\ wp_pc' = "done"
            /\ raised' = "KeyError"
    /\ call' = Call("group_of_waypoints", -1, "", wanted, <<x, y>>)
    /\ UNCHANGED <<all_adjacent, wp_result, otherVarsOfWaypoints>>

\* Every neighbour of the node, walkable or not
adjacent_of_Any(node, found) == node_adjacent_nodes(node)

\* Line 149: the grids of node.walkable_adjacent that pass the test
\* "n not in waypoints". n is a MapNode and waypoints holds grid positions,
\* which no MapNode is equal to, so every walkable neighbour passes.
adjacent_of(node, found) == node_walkable_adjacent(node)

\* Line 151: all_adjacent extended by the grids of adjacent it does not
\* hold yet.
extended(all, adjacent) ==
    all \o SelectSeq(adjacent, LAMBDA a : a \notin Range(all))

\* Line 152: the grid of the node of the next turn, all_adjacent[-1]
next_node(all) == all[Len(all)]

\* Lines 148-153: one turn of the while loop; all_adjacent[-1] raises
\* IndexError when the list is empty.
group_of_waypoints_loop ==
    /\ wp_pc = "loop"
    /\ Cardinality(waypoints) < required_waypoints
    /\ \E adjacent \in {adjacent_of(wp_node, waypoints)} :
       \E all \in {extended(all_adjacent, adjacent)} :
           /\ waypoints' = waypoints \cup Range(adjacent)
           /\ all_adjacent' = all
           /\ IF all = <<>>
              THEN /\ raised' = "IndexError"
                   /\ wp_pc' = "done"
                   /\ wp_node' = wp_node
              ELSE /\ raised' = "none"
                   /\ wp_pc' = "loop"
                   /\ wp_node' = next_node(all)
    /\ UNCHANGED <<required_waypoints, first_waypoint, wp_result, call,
                   otherVarsOfWaypoints>>

\* Line 154: the loop is left and the waypoints are returned.
group_of_waypoints_return ==
    /\ wp_pc = "loop"
    /\ Cardinality(waypoints) >= required_waypoints
    /\ wp_result' = waypoints
    /\ wp_pc' = "done"
    /\ raised' = "none"
    /\ UNCHANGED <<required_waypoints, first_waypoint, waypoints,
                   all_adjacent, wp_node, call, otherVarsOfWaypoints>>

\* A square map with units on any of the tiles of its second column and of
\* its second row.
InitWaypoints ==
    /\ \E side \in 1..MaxSide :
          \E unitTiles \in SUBSET {g \in Grid(side, side) :
                                      g[1] = 1 \/ g[2] = 1} :
              OccupiedMap(side, side, unitTiles, {})
    /\ RestInit

\* The positions asked for: the centres of the tiles of the map and of the
\* tiles next to it on the right.
NextWaypoints ==
    \/ \E g \in Grid(columns + 1, rows), wanted \in 0..MaxWaypoints :
           group_of_waypoints(grid_to_position(g)[1], grid_to_position(g)[2],
                              wanted)
    \/ group_of_waypoints_loop
    \/ group_of_waypoints_return

SpecWaypoints == InitWaypoints /\ [][NextWaypoints]_vars

\* C35: when group_of_waypoints returns, the result holds at least the wanted number of
\* grid positions, all of them on the map; the tile under (x, y) is among
\* them, and every other one is walkable.
C35_WaypointsReturned ==
    (wp_pc = "done" /\ raised = "none") =>
        /\ Cardinality(wp_result) >= required_waypoints
        /\ wp_result \subseteq nodes
        /\ position_to_grid(call.grid[1], call.grid[2]) \in wp_result
        /\ \A g \in wp_result \ {position_to_grid(call.grid[1], call.grid[2])} :
               walkable(g)

\* C35 happens: four waypoints or more were returned on a map with units
\* on it, after three turns of the loop or more.
C35_Witness ==
    /\ wp_pc = "done"
    /\ raised = "none"
    /\ required_waypoints >= 4
    /\ Cardinality(wp_result) >= required_waypoints
    /\ Len(all_adjacent) >= 3
    /\ \E n \in nodes : ~walkable(n)
    /\ first_waypoint \in wp_result

\* The interpreter goes on with the method it is in: a turn of the loop or
\* the return is taken when one can be.
SpecWaypointsFair ==
    SpecWaypoints /\ WF_vars(group_of_waypoints_loop \/ group_of_waypoints_return)

\* The loop is at a turn that finds no new waypoint, adds nothing to
\* all_adjacent and goes on from the node it is at: every later turn is
\* the same turn.
turns_in_place ==
    /\ wp_pc = "loop"
    /\ Cardinality(waypoints) < required_waypoints
    /\ \E adjacent \in {adjacent_of(wp_node, waypoints)} :
       \E all \in {extended(all_adjacent, adjacent)} :
           /\ Range(adjacent) \subseteq waypoints
           /\ all = all_adjacent
           /\ all # <<>>
           /\ next_node(all) = wp_node

\* C36: group_of_waypoints terminates for every start tile on the map,
\* every occupancy and every wanted number: its loop never comes to a turn
\* that repeats itself, and a call that entered the loop leaves it.
C36_WaypointsTerminate ==
    /\ [](~turns_in_place)
    /\ (wp_pc = "loop") ~> (wp_pc = "done")

(***************************************************************************)
(* Campaign: the missions that are unblocked.                              *)
(***************************************************************************)
unlocked == {i \in DOMAIN missions : missions[i]}

unlocked_is_prefix == \E k \in (-1)..MaxMissions : unlocked = 0..k

\* C37: the unblocked missions of a new campaign are a prefix 0..k of it;
\* a Campaign.update for a finished mission that is unblocked leaves them a
\* prefix when they were one; and no Campaign.update blocks an unblocked
\* mission again.
C37_UnlockedPrefix ==
    /\ unlocked_is_prefix
    /\ [][call'.op = "Campaign.update" =>
             /\ (unlocked_is_prefix /\ call'.n \in unlocked) =>
                    (unlocked_is_prefix)'
             /\ unlocked \subseteq unlocked']_vars

\* C37 happens: missions 0, 1 and 2 of a longer campaign are unblocked and
\* mission 3 is not, after mission 1 was finished.
C37_Witness ==
    /\ call.op = "Campaign.update"
    /\ call.n = 1
    /\ 3 \in DOMAIN missions
    /\ unlocked = 0..2

(***************************************************************************)
(* The mouse over a scrolled world: a game is started, the viewport of the *)
(* game view is moved up and to the right, and the mouse callbacks arrive; *)
(* the cursor is switched on and off.                                      *)
(***************************************************************************)
InitMouse == MapInit(MaxViewColumns, MaxViewRows) /\ RestInit

NextMouse ==
    \/ start_new_game
    \/ load_next_thing
    \/ after_loading
    \/ \E new_view \in {MenuView, game_view} : Window_show_view(new_view)
    \/ \E value \in BOOLEAN : toggle_mouse_and_keyboard(value, TRUE)
    \/ /\ current_view = game_view
       /\ \E dx \in {-70, 0}, dy \in {-70, 0} : change_viewport(dx, dy)
    \/ \E callback \in MouseCallbacks, x \in MousePoints, y \in MousePoints :
           on_mouse(callback, x, y)

SpecMouse == InitMouse /\ [][NextMouse]_vars

\* C38: the coordinates on_mouse_motion, on_mouse_press, on_mouse_release
\* and on_mouse_drag pass to the cursor handler are the window coordinates
\* plus the viewport's left and bottom while the game view is the current
\* view, and the window coordinates themselves in any other view.
C38_ShiftedInGameView ==
    (/\ call.op \in {"on_mouse_motion", "on_mouse_press", "on_mouse_release",
                     "on_mouse_drag"}
     /\ forwarded.handler = "cursor")
        => IF current_view = game_view
           THEN /\ forwarded.x = call.grid[1] + viewport.left
                /\ forwarded.y = call.grid[2] + viewport.bottom
           ELSE /\ forwarded.x = call.grid[1]
                /\ forwarded.y = call.grid[2]

(***************************************************************************)
(* MapNode.unit_id and MapNode.building_id written and read: the occupants *)
(* of the nodes on the diagonal of a map are set through the setters, to   *)
(* an id or to None, in any order.                                         *)
(***************************************************************************)
otherVarsOfMapNode ==
    <<columns, rows, map_width, map_height, sectors, buildingVars,
      producerVars, pathVars, missionVars, campaignVars, gameVars, restVars,
      before>>

\* node.unit_id = value
MapNode_set_unit_id(node, value) ==
    /\ set_unit_id(node, value)
    /\ raised' = "none"
    /\ call' = Call("unit_id", -1, "", value, node)
    /\ UNCHANGED <<building_id, map_buildings, otherVarsOfMapNode>>

\* node.building_id = value
MapNode_set_building_id(node, value) ==
    /\ set_building_id({node}, value)
    /\ raised' = "none"
    /\ call' = Call("building_id", -1, "", value, node)
    /\ UNCHANGED <<unit_id, map_units, otherVarsOfMapNode>>

InitAccessor == MapInit(MaxGridSide, MaxGridSide) /\ RestInit

\* The nodes written, and the values written to them.
Diagonal == {<<k, k>> : k \in 0..(MaxGridSide - 1)}

Occupants == {None} \cup BuildingIds

NextAccessor ==
    \/ \E node \in Diagonal, value \in Occupants :
           MapNode_set_unit_id(node, value)
    \/ \E node \in Diagonal, value \in Occupants :
           MapNode_set_building_id(node, value)

SpecAccessor == InitAccessor /\ [][NextAccessor]_vars

\* C39: reading building_id of a node returns its unit occupant, not its
\* building occupant: after unit_id was set to u the node's building_id
\* reads u; after building_id was set to v on a node with no unit it reads
\* as no occupant, while the node is walkable only if v is None and
\* Map.buildings holds v for the node.
C39_GetterReadsUnit ==
    /\ call.op = "unit_id" => get_building_id(call.grid) = call.n
    /\ (call.op = "building_id" /\ get_unit_id(call.grid) = None) =>
           /\ get_building_id(call.grid) = None
           /\ walkable(call.grid) <=> call.n = None
           /\ map_buildings[call.grid] = call.n

\* C39 happens: building_id was set to an id on a node with no unit, while
\* another node holds a unit; the node written is not walkable and the
\* table holds the id.
C39_Witness ==
    /\ call.op = "building_id"
    /\ call.n # None
    /\ get_unit_id(call.grid) = None
    /\ ~walkable(call.grid)
    /\ map_buildings[call.grid] = call.n
    /\ \E n \in nodes : unit_id[n] # None /\ building_id[n] # None

====
